---- MODULE Spec2Model ----
(***************************************************************************)
(* pyCityParkingPermit: the Auth session (token, authenticated flag,       *)
(* permit-media type id, login lock), the request pipeline with its single *)
(* re-authentication retry, and the CityParkingPermitAPI facade with its   *)
(* stored permit-media defaults.                                           *)
(*                                                                         *)
(* The program runs on one asyncio event loop: a step of a caller is the   *)
(* code between two suspension points (an awaited transport call, or the   *)
(* wait for the login lock).  Each action below is one such step.          *)
(***************************************************************************)
EXTENDS Integers, Sequences, FiniteSets, TLC

\* Number of concurrent callers sharing one Auth / API instance.
NumCallers == 2

\* Callers 1..NumFacadeCallers run every facade operation; the others keep the
\* session and the stored defaults moving with get_account().
NumFacadeCallers == 1

Callers == 1..NumCallers
NoCaller == 0

(***************************************************************************)
(* Python values (decoded JSON, header values, optional fields): a tag t   *)
(* and, by tag, the number n (int, bool as 0/1), the characters s (str),   *)
(* the items l (list) or the entries d (dict).  A str is a tuple of        *)
(* characters, so that int() and the other conversions are computed.       *)
(***************************************************************************)
PyVal(t, n, s, l, d) == [t |-> t, n |-> n, s |-> s, l |-> l, d |-> d]
PyNone == PyVal("none", 0, <<>>, <<>>, <<>>)
PyBool(b) == PyVal("bool", IF b THEN 1 ELSE 0, <<>>, <<>>, <<>>)
PyInt(n) == PyVal("int", n, <<>>, <<>>, <<>>)
PyStr(s) == PyVal("str", 0, s, <<>>, <<>>)
PyList(l) == PyVal("list", 0, <<>>, l, <<>>)
PyDict(d) == PyVal("dict", 0, <<>>, <<>>, d)

EmptyDict == PyDict(<<>>)

\* isinstance(x, Mapping) / isinstance(x, list) / isinstance(x, str)
IsMapping(x) == x.t = "dict"
IsList(x) == x.t = "list"
IsStr(x) == x.t = "str"

\* key in d
HasKey(d, k) == k \in DOMAIN d.d

\* d.get(k)
DictGet(d, k) == IF HasKey(d, k) THEN d.d[k] ELSE PyNone

\* bool(x): Python truthiness
Truthy(x) ==
    CASE x.t = "none" -> FALSE
      [] x.t = "bool" -> x.n = 1
      [] x.t = "int" -> x.n # 0
      [] x.t = "str" -> x.s # <<>>
      [] x.t = "list" -> x.l # <<>>
      [] x.t = "dict" -> DOMAIN x.d # {}

Digits == <<"0", "1", "2", "3", "4", "5", "6", "7", "8", "9">>

IsDigit(ch) == \E i \in 1..10 : Digits[i] = ch

DigitVal(ch) == (CHOOSE i \in 1..10 : Digits[i] = ch) - 1

RECURSIVE lstrip(_)
lstrip(s) == IF s # <<>> /\ Head(s) = " " THEN lstrip(Tail(s)) ELSE s

RECURSIVE rstrip(_)
rstrip(s) ==
    IF s # <<>> /\ s[Len(s)] = " " THEN rstrip(SubSeq(s, 1, Len(s) - 1)) ELSE s

strip(s) == rstrip(lstrip(s))

\* An integer literal body: digits, single underscores only between digits.
WellFormedDigits(s) ==
    /\ s # <<>>
    /\ IsDigit(s[1])
    /\ IsDigit(s[Len(s)])
    /\ \A i \in 1..Len(s) : IsDigit(s[i]) \/ s[i] = "_"
    /\ \A i \in 1..(Len(s) - 1) : ~(s[i] = "_" /\ s[i + 1] = "_")

RECURSIVE DigitsValue(_, _)
DigitsValue(s, acc) ==
    IF s = <<>> THEN acc
    ELSE IF Head(s) = "_" THEN DigitsValue(Tail(s), acc)
    ELSE DigitsValue(Tail(s), acc * 10 + DigitVal(Head(s)))

\* int(s) for a str s: surrounding blanks stripped, optional sign, decimal digits.
IntOfStr(s) ==
    LET Literal(b, signed, body) ==
            IF WellFormedDigits(body)
            THEN [ok |-> TRUE,
                  v |-> IF signed /\ b[1] = "-" THEN 0 - DigitsValue(body, 0)
                        ELSE DigitsValue(body, 0)]
            ELSE [ok |-> FALSE, v |-> 0]
        Signed(b, signed) == Literal(b, signed, IF signed THEN Tail(b) ELSE b)
        Stripped(b) == Signed(b, b # <<>> /\ b[1] \in {"+", "-"})
    IN  Stripped(strip(s))

\* int(x) for any Python value x
int(x) ==
    CASE x.t = "int" -> [ok |-> TRUE, v |-> x.n]
      [] x.t = "bool" -> [ok |-> TRUE, v |-> x.n]
      [] x.t = "str" -> IntOfStr(x.s)
      [] OTHER -> [ok |-> FALSE, v |-> 0]

RECURSIVE DecimalDigits(_)
DecimalDigits(n) ==
    IF n < 10 THEN <<Digits[n + 1]>>
    ELSE Append(DecimalDigits(n \div 10), Digits[(n % 10) + 1])

\* str(x) for the values a login response can carry as Token
str(x) ==
    CASE x.t = "str" -> x.s
      [] x.t = "int" -> IF x.n < 0 THEN <<"-">> \o DecimalDigits(0 - x.n)
                        ELSE DecimalDigits(x.n)
      [] x.t = "bool" -> IF x.n = 1 THEN <<"T", "r", "u", "e">>
                         ELSE <<"F", "a", "l", "s", "e">>
      [] x.t = "none" -> <<"N", "o", "n", "e">>

(***************************************************************************)
(* Exceptions and results of a call.                                       *)
(***************************************************************************)
Exc(kind, msg) == [kind |-> kind, val |-> PyNone, msg |-> msg]
AuthError(msg) == Exc("AuthError", msg)
ParkingConnectionError(msg) == Exc("ParkingConnectionError", msg)
\* the message of a ParseError names the field; only its kind is kept
ParseError(msg) == Exc("ParseError", "")
RateLimitError(retry_after) ==
    [kind |-> "RateLimitError", val |-> retry_after, msg |-> "Rate limit exceeded"]
\* aiohttp's ClientResponseError, raised by response.raise_for_status()
ClientResponseError(status) ==
    [kind |-> "ClientResponseError", val |-> PyInt(status), msg |-> "raise_for_status"]
Returned(v) == [kind |-> "ok", val |-> v, msg |-> ""]
NoResult == [kind |-> "none", val |-> PyNone, msg |-> ""]

\* The failure kinds of the library's public contract.
LibraryFailures ==
    {"ParkingConnectionError", "AuthError", "RateLimitError", "ParseError"}

(***************************************************************************)
(* What the transport can answer.                                          *)
(***************************************************************************)
TransportError == [kind |-> "error"]
Response(status, retry_after, body) ==
    [kind |-> "response", status |-> status, retry_after |-> retry_after,
     body |-> body]

EmptyBody == [text |-> "empty", json |-> PyNone]
InvalidBody == [text |-> "invalid", json |-> PyNone]
JsonBody(v) == [text |-> "json", json |-> v]

\* async_json taking a body that is not JSON as an empty one
async_json_lenient(body) ==
    CASE body.text = "empty" -> [ok |-> TRUE, v |-> PyNone]
      [] body.text = "invalid" -> [ok |-> TRUE, v |-> PyNone]
      [] body.text = "json" -> [ok |-> TRUE, v |-> body.json]

\* async_json(response, on_error=...): None for an empty body, the parsed
\* value for valid JSON, on_error(...) otherwise.
async_json(body) ==
    CASE body.text = "empty" -> [ok |-> TRUE, v |-> PyNone]
      [] body.text = "invalid" -> [ok |-> FALSE, v |-> PyNone]
      [] body.text = "json" -> [ok |-> TRUE, v |-> body.json]

\* _parse_retry_after(headers); the argument is headers.get("Retry-After")
parse_retry_after(value) ==
    LET Parsed(r) == IF r.ok THEN PyInt(r.v) ELSE PyNone
    IN  IF value = PyNone THEN PyNone ELSE Parsed(IntOfStr(value.s))

Statuses == {200, 302, 401, 403, 429, 500}

RetryAfterHeaders ==
    {PyNone, PyStr(<<"6", "0">>), PyStr(<<"a">>), PyStr(<<"1", ".", "5">>),
     PyStr(<<" ", "7">>), PyStr(<<"-", "5">>), PyStr(<<>>)}


(***************************************************************************)
(* datetime: a value is (proleptic Gregorian day number, second of day,    *)
(* microsecond, UTC offset in minutes or None when naive).  Texts are      *)
(* character tuples in the shape YYYY-MM-DD[?HH:MM:SS[.f...][Z|+HH:MM]].   *)
(***************************************************************************)
MINYEAR == 1
MAXYEAR == 9999

IsLeap(y) == (y % 4 = 0 /\ y % 100 # 0) \/ y % 400 = 0

DaysInMonth(y, m) ==
    IF m = 2 THEN (IF IsLeap(y) THEN 29 ELSE 28)
    ELSE IF m \in {4, 6, 9, 11} THEN 30 ELSE 31

\* days since 1970-01-01 of the civil date y-m-d
DaysFromCivil(y, m, d) ==
    LET yy == IF m <= 2 THEN y - 1 ELSE y
        era == yy \div 400
        yoe == yy - era * 400
        mp == IF m > 2 THEN m - 3 ELSE m + 9
        doy == (153 * mp + 2) \div 5 + d - 1
        doe == yoe * 365 + yoe \div 4 - yoe \div 100 + doy
    IN  era * 146097 + doe - 719468

\* the civil date of a day number
CivilFromDays(z) ==
    LET Civil(era, yoe, doy, mp) ==
            [y |-> yoe + era * 400 + (IF mp < 10 THEN 0 ELSE 1),
             m |-> IF mp < 10 THEN mp + 3 ELSE mp - 9,
             d |-> doy - (153 * mp + 2) \div 5 + 1]
        OfDoy(era, yoe, doy) == Civil(era, yoe, doy, (5 * doy + 2) \div 153)
        OfYoe(era, doe, yoe) ==
            OfDoy(era, yoe, doe - (365 * yoe + yoe \div 4 - yoe \div 100))
        OfDoe(era, doe) ==
            OfYoe(era, doe,
                  (doe - doe \div 1460 + doe \div 36524 - doe \div 146096) \div 365)
        OfEra(zz, era) == OfDoe(era, zz - era * 146097)
        Shifted(zz) == OfEra(zz, zz \div 146097)
    IN  Shifted(z + 719468)

AllDigits(s, from, to) == \A i \in from..to : IsDigit(s[i])

RECURSIVE NumAt(_, _, _)
NumAt(s, from, to) ==
    IF from > to THEN 0
    ELSE NumAt(s, from, to - 1) * 10 + DigitVal(s[to])

\* value.replace("Z", "+00:00")
RECURSIVE ReplaceZ(_)
ReplaceZ(s) ==
    IF s = <<>> THEN <<>>
    ELSE IF Head(s) = "Z" THEN <<"+", "0", "0", ":", "0", "0">> \o ReplaceZ(Tail(s))
    ELSE <<Head(s)>> \o ReplaceZ(Tail(s))

DateTime(day, sec, us, off) == [day |-> day, sec |-> sec, us |-> us, off |-> off]

BadDateTime == [ok |-> FALSE, err |-> "ValueError"]

\* the date part: characters 1..10
ParseDatePart(s) ==
    LET Date(y, m, d) ==
            IF y >= MINYEAR /\ m \in 1..12 /\ d >= 1 /\ d <= DaysInMonth(y, m)
            THEN [ok |-> TRUE, v |-> DaysFromCivil(y, m, d)]
            ELSE [ok |-> FALSE]
    IN  IF /\ Len(s) >= 10
           /\ AllDigits(s, 1, 4) /\ s[5] = "-" /\ AllDigits(s, 6, 7)
           /\ s[8] = "-" /\ AllDigits(s, 9, 10)
        THEN Date(NumAt(s, 1, 4), NumAt(s, 6, 7), NumAt(s, 9, 10))
        ELSE [ok |-> FALSE]

\* the time part HH:MM:SS: characters 12..19
ParseTimePart(s) ==
    IF /\ Len(s) >= 19
       /\ AllDigits(s, 12, 13) /\ s[14] = ":" /\ AllDigits(s, 15, 16)
       /\ s[17] = ":" /\ AllDigits(s, 18, 19)
       /\ NumAt(s, 12, 13) < 24 /\ NumAt(s, 15, 16) < 60 /\ NumAt(s, 18, 19) < 60
    THEN [ok |-> TRUE,
          v |-> NumAt(s, 12, 13) * 3600 + NumAt(s, 15, 16) * 60 + NumAt(s, 18, 19)]
    ELSE [ok |-> FALSE]

\* number of leading digits of s
RECURSIVE DigitRun(_)
DigitRun(s) == IF s # <<>> /\ IsDigit(Head(s)) THEN 1 + DigitRun(Tail(s)) ELSE 0

RECURSIVE Pow10(_)
Pow10(n) == IF n = 0 THEN 1 ELSE 10 * Pow10(n - 1)

\* the optional fraction after the seconds: microseconds and the rest
ParseFraction(rest) ==
    IF rest # <<>> /\ Head(rest) \in {".", ","}
    THEN LET k == DigitRun(Tail(rest))
             used == IF k > 6 THEN 6 ELSE k
         IN  IF k = 0 THEN [ok |-> FALSE]
             ELSE [ok |-> TRUE,
                   us |-> NumAt(Tail(rest), 1, used) * Pow10(6 - used),
                   rest |-> SubSeq(rest, k + 2, Len(rest))]
    ELSE [ok |-> TRUE, us |-> 0, rest |-> rest]

\* the optional UTC offset +HH:MM / -HH:MM
ParseOffset(rest) ==
    IF rest = <<>> THEN [ok |-> TRUE, off |-> PyNone]
    ELSE IF /\ Len(rest) = 6 /\ rest[1] \in {"+", "-"}
            /\ AllDigits(rest, 2, 3) /\ rest[4] = ":" /\ AllDigits(rest, 5, 6)
            /\ NumAt(rest, 2, 3) < 24 /\ NumAt(rest, 5, 6) < 60
    THEN LET mins == NumAt(rest, 2, 3) * 60 + NumAt(rest, 5, 6)
         IN  [ok |-> TRUE, off |-> PyInt(IF rest[1] = "-" THEN 0 - mins ELSE mins)]
    ELSE [ok |-> FALSE]

\* datetime.fromisoformat(text)
fromisoformat(s) ==
    LET WithOffset(date, time, frac, off) ==
            IF ~off.ok THEN BadDateTime
            ELSE [ok |-> TRUE, v |-> DateTime(date.v, time.v, frac.us, off.off)]
        WithFraction(date, time, frac) ==
            IF ~frac.ok THEN BadDateTime
            ELSE WithOffset(date, time, frac, ParseOffset(frac.rest))
        WithTime(date, time) ==
            IF ~time.ok THEN BadDateTime
            ELSE WithFraction(date, time, ParseFraction(SubSeq(s, 20, Len(s))))
        WithDate(date) ==
            IF ~date.ok THEN BadDateTime
            ELSE IF Len(s) = 10
            THEN [ok |-> TRUE, v |-> DateTime(date.v, 0, 0, PyNone)]
            ELSE WithTime(date, ParseTimePart(s))
    IN  WithDate(ParseDatePart(s))

MinDay == DaysFromCivil(MINYEAR, 1, 1)
MaxDay == DaysFromCivil(MAXYEAR, 12, 31)

\* dt.replace(tzinfo=UTC) for a naive dt
AssumeUTC(dt) == IF dt.off = PyNone THEN [dt EXCEPT !.off = PyInt(0)] ELSE dt

\* dt.astimezone(UTC) for an aware dt; OverflowError outside year 1..9999
astimezone_utc(dt) ==
    LET shifted == dt.sec - dt.off.n * 60
        day == dt.day + shifted \div 86400
        sec == shifted % 86400
    IN  IF day < MinDay \/ day > MaxDay
        THEN [ok |-> FALSE, err |-> "OverflowError"]
        ELSE [ok |-> TRUE, v |-> DateTime(day, sec, dt.us, PyInt(0))]

\* _normalize_dt rounding to the nearest second
normalize_dt_rounding(dt) ==
    LET Rounded(u) ==
            IF u.ok
            THEN [ok |-> TRUE,
                  v |-> [u.v EXCEPT !.us = 0,
                                    !.sec = IF u.v.us >= 500000 /\ @ < 86399
                                            THEN @ + 1 ELSE @]]
            ELSE u
    IN  Rounded(astimezone_utc(dt))

\* models._normalize_dt: astimezone(UTC).replace(microsecond=0)
normalize_dt(dt) ==
    LET Truncated(u) == IF u.ok THEN [ok |-> TRUE, v |-> [u.v EXCEPT !.us = 0]] ELSE u
    IN  Truncated(astimezone_utc(dt))

\* models._parse_dt_value
parse_dt_value(value) ==
    LET Parsed(r) ==
            IF r.ok THEN [ok |-> TRUE, v |-> AssumeUTC(r.v)]
            ELSE [ok |-> FALSE, err |-> "ParseError"]
    IN  IF ~IsStr(value) THEN [ok |-> FALSE, err |-> "ParseError"]
        ELSE Parsed(fromisoformat(ReplaceZ(value.s)))

\* models._parse_dt
parse_dt(value) ==
    LET Normalized(r) == IF r.ok THEN normalize_dt(r.v) ELSE r
    IN  Normalized(parse_dt_value(value))

Pad(n, width) ==
    LET Filled(ds) == [i \in 1..(width - Len(ds)) |-> "0"] \o ds
    IN  Filled(DecimalDigits(n))

\* dt.isoformat() of an aware datetime with offset zero and microsecond zero
isoformat_utc(dt) ==
    LET Text(c) ==
            Pad(c.y, 4) \o <<"-">> \o Pad(c.m, 2) \o <<"-">> \o Pad(c.d, 2)
            \o <<"T">> \o Pad(dt.sec \div 3600, 2) \o <<":">>
            \o Pad((dt.sec % 3600) \div 60, 2) \o <<":">> \o Pad(dt.sec % 60, 2)
            \o <<"+", "0", "0", ":", "0", "0">>
    IN  Text(CivilFromDays(dt.day))

\* models._dt_to_client
dt_to_client(dt) ==
    LET Text(n) == IF n.ok THEN [ok |-> TRUE, v |-> PyStr(isoformat_utc(n.v))] ELSE n
    IN  Text(normalize_dt(dt))

\* api._normalize_date
normalize_date(dt) == normalize_dt(AssumeUTC(dt))

(***************************************************************************)
(* models.py: the entity parsers.  A parser yields [ok, v] or [ok, exc].   *)
(***************************************************************************)
Ok(v) == [ok |-> TRUE, v |-> v, exc |-> NoResult]
Raise(exc) == [ok |-> FALSE, v |-> PyNone, exc |-> exc]

\* an error of the datetime layer as the exception that reaches the caller
DtRaise(r) ==
    IF r.err = "ParseError" THEN Raise(ParseError("Invalid datetime"))
    ELSE Raise(Exc(r.err, "date value out of range"))

\* models._parse_int
parse_int(value) ==
    LET Parsed(r) == IF r.ok THEN Ok(PyInt(r.v)) ELSE Raise(ParseError("Invalid int"))
    IN  Parsed(int(value))

\* models._parse_str
parse_str(value) ==
    IF IsStr(value) THEN Ok(value) ELSE Raise(ParseError("Invalid str"))

\* models._parse_optional_str
parse_optional_str(value) ==
    IF value = PyNone \/ IsStr(value) THEN Ok(value)
    ELSE Raise(ParseError("Invalid str"))

\* _dt_to_client(_parse_dt(value, field))
client_time(value) ==
    LET Text(t) == IF t.ok THEN Ok(t.v) ELSE DtRaise(t)
        Parsed(r) == IF ~r.ok THEN DtRaise(r) ELSE Text(dt_to_client(r.v))
    IN  Parsed(parse_dt(value))

\* the first failure of a tuple of parser results, if any
FirstFailure(rs) ==
    rs[CHOOSE i \in 1..Len(rs) : ~rs[i].ok /\ \A j \in 1..(i - 1) : rs[j].ok]

\* cls(...) of the parsed fields: the first exception a field parser raised,
\* else the entity
Build(rs, entity) ==
    IF \E i \in 1..Len(rs) : ~rs[i].ok THEN FirstFailure(rs) ELSE Ok(entity)

\* models.Account.from_mapping
Account_from_mapping(data) ==
    LET Account(reservations, id, remaining_time) ==
            IF reservations # PyNone /\ ~IsList(reservations)
            THEN Raise(ParseError("Expected permit_media.ActiveReservations list"))
            ELSE Build(<<id, remaining_time>>,
                       PyDict([id |-> id.v, remaining_time |-> remaining_time.v,
                               active_reservation_count |->
                                   PyInt(IF reservations = PyNone THEN 0
                                         ELSE Len(reservations.l))]))
    IN  Account(DictGet(data, "ActiveReservations"),
                parse_int(DictGet(data, "Code")),
                parse_int(DictGet(data, "Balance")))

\* models.Reservation.from_mapping
Reservation_from_mapping(data) ==
    LET Reservation(id, plate, name, start_time, end_time) ==
            Build(<<id, plate, name, start_time, end_time>>,
                  PyDict([id |-> id.v, license_plate |-> plate.v,
                          name |-> name.v, start_time |-> start_time.v,
                          end_time |-> end_time.v]))
        license_plate == DictGet(data, "LicensePlate")
    IN  IF ~IsMapping(license_plate)
        THEN Raise(ParseError("Expected reservation.LicensePlate object"))
        ELSE Reservation(parse_int(DictGet(data, "ReservationID")),
                         parse_str(DictGet(license_plate, "Value")),
                         parse_str(DictGet(license_plate, "DisplayValue")),
                         client_time(DictGet(data, "ValidFrom")),
                         client_time(DictGet(data, "ValidUntil")))

\* models.Favorite.from_mapping
Favorite_from_mapping(data) ==
    LET Favorite_(plate, name) ==
            Build(<<plate, name>>,
                  PyDict([license_plate |-> plate.v, name |-> name.v]))
    IN  Favorite_(parse_str(DictGet(data, "Value")),
                  parse_optional_str(DictGet(data, "Name")))

\* Favorite(license_plate=..., name=...)
Favorite(license_plate, name) ==
    PyDict([license_plate |-> license_plate, name |-> name])

\* the instant of an aware datetime, as a key that orders instants
UtcKey(dt) ==
    LET shifted == dt.sec - dt.off.n * 60
    IN  <<dt.day + shifted \div 86400, shifted % 86400, dt.us>>

KeyLess(a, b) ==
    \/ a[1] < b[1]
    \/ a[1] = b[1] /\ a[2] < b[2]
    \/ a[1] = b[1] /\ a[2] = b[2] /\ a[3] < b[3]

\* datetime.now(tz=...).date(): the calendar day of `now` at an offset
Today(now, off) == now.day + (now.sec + off * 60) \div 86400

\* datetime.now(): the naive local time of the caller's process
LocalNow(now) ==
    LET shifted == now.sec + now.local_off * 60
    IN  DateTime(now.day + shifted \div 86400, shifted % 86400, now.us, PyNone)

\* Zone.from_mapping taking the current day in UTC for every entry
ZoneBlock_utc_today(item, now) ==
    LET Block(start_raw, end_raw) ==
            IF ~start_raw.ok \/ ~end_raw.ok
            THEN [kind |-> "raise", exc |-> ParseError("Invalid datetime")]
            ELSE IF start_raw.v.day # Today(now, 0)
            THEN [kind |-> "skip"]
            ELSE [kind |-> "paid", start |-> start_raw.v, end |-> end_raw.v]
    IN  IF ~IsMapping(item)
        THEN [kind |-> "raise",
              exc |-> ParseError("Expected permit.BlockTimes item object")]
        ELSE IF DictGet(item, "IsFree") = PyBool(TRUE) THEN [kind |-> "skip"]
        ELSE Block(parse_dt_value(DictGet(item, "ValidFrom")),
                   parse_dt_value(DictGet(item, "ValidUntil")))

\* models.Zone.from_mapping, lines 84-94: one entry of BlockTimes
ZoneBlock(item, now) ==
    LET Block(start_raw, end_raw) ==
            IF ~start_raw.ok \/ ~end_raw.ok
            THEN [kind |-> "raise", exc |-> ParseError("Invalid datetime")]
            ELSE IF start_raw.v.day # Today(now, start_raw.v.off.n)
            THEN [kind |-> "skip"]
            ELSE [kind |-> "paid", start |-> start_raw.v, end |-> end_raw.v]
    IN  IF ~IsMapping(item)
        THEN [kind |-> "raise",
              exc |-> ParseError("Expected permit.BlockTimes item object")]
        ELSE IF DictGet(item, "IsFree") = PyBool(TRUE) THEN [kind |-> "skip"]
        ELSE Block(parse_dt_value(DictGet(item, "ValidFrom")),
                   parse_dt_value(DictGet(item, "ValidUntil")))

\* models.Zone.from_mapping
Zone_from_mapping(data, now) ==
    LET zone_code == parse_str(DictGet(data, "ZoneCode"))
        block_times == DictGet(data, "BlockTimes")
        Zone(start_time, end_time) ==
            IF ~start_time.ok THEN DtRaise(start_time)
            ELSE IF ~end_time.ok THEN DtRaise(end_time)
            ELSE Ok(PyDict([id |-> zone_code.v,
                            start_time |-> start_time.v,
                            end_time |-> end_time.v]))
        Earliest(block) == Zone(dt_to_client(block.start), dt_to_client(block.end))
        Paid(blocks, paid) ==
            IF paid = {} THEN Ok(PyNone)
            ELSE Earliest(blocks[CHOOSE i \in paid : \A j \in paid :
                    /\ ~KeyLess(UtcKey(blocks[j].start), UtcKey(blocks[i].start))
                    /\ (j < i => KeyLess(UtcKey(blocks[i].start),
                                         UtcKey(blocks[j].start)))])
        Blocks(blocks) ==
            IF \E i \in 1..Len(blocks) : blocks[i].kind = "raise"
            THEN Raise(blocks[CHOOSE i \in 1..Len(blocks) :
                        /\ blocks[i].kind = "raise"
                        /\ \A j \in 1..(i - 1) : blocks[j].kind # "raise"].exc)
            ELSE Paid(blocks, {i \in 1..Len(blocks) : blocks[i].kind = "paid"})
    IN  IF ~zone_code.ok THEN zone_code
        ELSE IF ~IsList(block_times)
        THEN Raise(ParseError("Expected permit.BlockTimes list"))
        ELSE Blocks([i \in 1..Len(block_times.l) |->
                        ZoneBlock(block_times.l[i], now)])

(***************************************************************************)
(* api.py: the module-level helpers.                                       *)
(***************************************************************************)
\* _extract_permit_media looking at the plural key first
extract_permit_media_plural_first(data) ==
    LET Medias(permit, permit_medias) ==
            IF ~IsList(permit_medias)
            THEN Raise(ParseError("Expected permit.PermitMedias list"))
            ELSE IF permit_medias.l = <<>>
            THEN Raise(ParseError("Expected permit media list to have items"))
            ELSE IF ~IsMapping(permit_medias.l[1])
            THEN Raise(ParseError("Expected permit_media object"))
            ELSE Ok([permit |-> permit.v, permit_media |-> permit_medias.l[1]])
        Permit(permit) ==
            IF ~permit.ok THEN permit
            ELSE Medias(permit, DictGet(permit.v, "PermitMedias"))
    IN  IF ~IsMapping(data) THEN Raise(ParseError("Expected response object"))
        ELSE Permit(
            IF HasKey(data, "Permits")
            THEN (IF ~IsList(data.d.Permits)
                  THEN Raise(ParseError("Expected permits list"))
                  ELSE IF data.d.Permits.l = <<>>
                  THEN Raise(ParseError("Expected permit list to have items"))
                  ELSE IF ~IsMapping(data.d.Permits.l[1])
                  THEN Raise(ParseError("Expected permit object"))
                  ELSE Ok(data.d.Permits.l[1]))
            ELSE IF HasKey(data, "Permit")
            THEN (IF IsMapping(data.d.Permit) THEN Ok(data.d.Permit)
                  ELSE Raise(ParseError("Expected permit object")))
            ELSE Raise(ParseError("Expected permit data in response")))

\* api._extract_permit_media
extract_permit_media(data) ==
    LET Medias(permit, permit_medias) ==
            IF ~IsList(permit_medias)
            THEN Raise(ParseError("Expected permit.PermitMedias list"))
            ELSE IF permit_medias.l = <<>>
            THEN Raise(ParseError("Expected permit media list to have items"))
            ELSE IF ~IsMapping(permit_medias.l[1])
            THEN Raise(ParseError("Expected permit_media object"))
            ELSE Ok([permit |-> permit.v, permit_media |-> permit_medias.l[1]])
        Permit(permit) ==
            IF ~permit.ok THEN permit
            ELSE Medias(permit, DictGet(permit.v, "PermitMedias"))
    IN  IF ~IsMapping(data) THEN Raise(ParseError("Expected response object"))
        ELSE Permit(
            IF HasKey(data, "Permit")
            THEN (IF IsMapping(data.d.Permit) THEN Ok(data.d.Permit)
                  ELSE Raise(ParseError("Expected permit object")))
            ELSE IF HasKey(data, "Permits")
            THEN (IF ~IsList(data.d.Permits)
                  THEN Raise(ParseError("Expected permits list"))
                  ELSE IF data.d.Permits.l = <<>>
                  THEN Raise(ParseError("Expected permit list to have items"))
                  ELSE IF ~IsMapping(data.d.Permits.l[1])
                  THEN Raise(ParseError("Expected permit object"))
                  ELSE Ok(data.d.Permits.l[1]))
            ELSE Raise(ParseError("Expected permit data in response")))

\* _ensure_list(value or [], label), then from_mapping of every item
ParseItems(value, kind) ==
    LET items == IF Truthy(value) THEN value ELSE PyList(<<>>)
        Parsed(rs) == Build(rs, PyList([i \in 1..Len(rs) |-> rs[i].v]))
    IN  IF ~IsList(items) THEN Raise(ParseError("Expected list"))
        ELSE Parsed([i \in 1..Len(items.l) |->
                        IF ~IsMapping(items.l[i])
                        THEN Raise(ParseError("Expected object"))
                        ELSE IF kind = "reservation"
                        THEN Reservation_from_mapping(items.l[i])
                        ELSE Favorite_from_mapping(items.l[i])])

\* api._pick_reservation_from_permit, lines 306-319
Matches(reservation, license_plate_value, start_time, end_time) ==
    /\ reservation.d.license_plate = license_plate_value
    /\ start_time # PyNone => reservation.d.start_time = start_time
    /\ end_time # PyNone => reservation.d.end_time = end_time

\* api._pick_reservation_from_permit
pick_reservation_from_permit(data, license_plate_value, date_from, date_until) ==
    LET Client(dt) ==
            IF dt = PyNone THEN PyNone
            ELSE PyStr(isoformat_utc(normalize_date(dt).v))
        Picked(rs, hits) ==
            IF hits = {} THEN Ok(rs[1])
            ELSE Ok(rs[CHOOSE i \in hits : \A j \in hits : i <= j])
        Among(rs, start_time, end_time) ==
            Picked(rs, {i \in 1..Len(rs) :
                        Matches(rs[i], license_plate_value, start_time, end_time)})
        Active(reservations) ==
            IF ~reservations.ok THEN reservations
            ELSE IF reservations.v.l = <<>>
            THEN Raise(ParseError("No active reservations in response"))
            ELSE Among(reservations.v.l, Client(date_from), Client(date_until))
        Media(pm) ==
            IF ~pm.ok THEN pm
            ELSE Active(ParseItems(DictGet(pm.v.permit_media, "ActiveReservations"),
                                   "reservation"))
    IN  Media(extract_permit_media(data))

\* ---------------------------------------------------------------- wire data

ChT1 == <<"t", "1">>
Ch7 == <<"7">>

\* Bodies of GET /login (the permit-media types list).
TypesBodies ==
    {EmptyBody, InvalidBody, JsonBody(PyList(<<>>)), JsonBody(EmptyDict),
     JsonBody(PyDict([PermitMediaTypes |-> PyStr(<<"x">>)])),
     JsonBody(PyDict([PermitMediaTypes |-> PyList(<<>>)])),
     JsonBody(PyDict([PermitMediaTypes |-> PyList(<<PyInt(5)>>)])),
     JsonBody(PyDict([PermitMediaTypes |-> PyList(<<EmptyDict>>)])),
     JsonBody(PyDict([PermitMediaTypes |->
        PyList(<<PyDict([ID |-> PyInt(1)])>>)])),
     JsonBody(PyDict([PermitMediaTypes |->
        PyList(<<PyDict([ID |-> PyInt(2)]), PyDict([ID |-> PyInt(1)])>>)])),
     JsonBody(PyDict([PermitMediaTypes |->
        PyList(<<PyDict([ID |-> PyInt(1)]), PyInt(5)>>)])),
     JsonBody(PyDict([PermitMediaTypes |->
        PyList(<<PyDict([ID |-> PyStr(<<"2">>)])>>)])),
     JsonBody(PyDict([PermitMediaTypes |->
        PyList(<<PyDict([ID |-> PyStr(<<"x">>)])>>)])),
     JsonBody(PyDict([PermitMediaTypes |->
        PyList(<<PyDict([ID |-> PyBool(TRUE)])>>)])),
     JsonBody(PyDict([PermitMediaTypes |->
        PyList(<<PyDict([ID |-> PyList(<<>>)])>>)]))}

\* Bodies of POST /login.
LoginBodies ==
    {EmptyBody, InvalidBody, JsonBody(PyList(<<>>)), JsonBody(EmptyDict),
     JsonBody(PyDict([Token |-> PyStr(ChT1)])),
     JsonBody(PyDict([Token |-> PyStr(ChT1), LoginStatus |-> PyInt(0)])),
     JsonBody(PyDict([Token |-> PyInt(7), LoginStatus |-> PyInt(1)])),
     JsonBody(PyDict([Token |-> PyStr(ChT1), LoginStatus |-> PyInt(2),
                      ErrorMessage |-> PyStr(<<"n", "o">>)])),
     JsonBody(PyDict([Token |-> PyStr(ChT1), LoginStatus |-> PyStr(<<"2">>)])),
     JsonBody(PyDict([Token |-> PyStr(<<>>), LoginStatus |-> PyInt(0)])),
     JsonBody(PyDict([Token |-> PyNone, LoginStatus |-> PyInt(0)])),
     JsonBody(PyDict([Token |-> PyInt(0)])),
     JsonBody(PyDict([LoginStatus |-> PyInt(0)]))}

\* Responses: the Retry-After header varies where the code reads it (429).
ResponsesWith(bodies) ==
    {Response(429, h, EmptyBody) : h \in RetryAfterHeaders}
    \cup {Response(s, PyNone, b) : s \in Statuses \ {429}, b \in bodies}
    \cup {Response(200, PyStr(<<"6", "0">>), b) : b \in bodies}

TypesAnswers == {TransportError} \cup ResponsesWith(TypesBodies)
LoginAnswers == {TransportError} \cup ResponsesWith(LoginBodies)

\* The login answers used where the facade, not the login, is under study.
FewTypesAnswers ==
    {TransportError,
     Response(200, PyNone, JsonBody(PyDict([PermitMediaTypes |-> PyList(<<>>)]))),
     Response(200, PyNone, JsonBody(PyDict([PermitMediaTypes |->
        PyList(<<PyDict([ID |-> PyInt(1)])>>)])))}
FewLoginAnswers ==
    {TransportError,
     Response(429, PyStr(<<"6", "0">>), EmptyBody),
     Response(401, PyNone, EmptyBody),
     Response(200, PyNone,
              JsonBody(PyDict([Token |-> PyStr(ChT1), LoginStatus |-> PyInt(0)])))}

\* ---------------------------------------------------------------- state

VARIABLES
    config,                 \* Auth._identifier, _password, _base_url, _timeout
    token,                  \* Auth._token
    authenticated,          \* Auth._authenticated
    permit_media_type_id,   \* Auth._permit_media_type_id
    login_lock,             \* Auth._login_lock: holder and FIFO waiters
    default_type_id,        \* CityParkingPermitAPI._default_type_id
    default_code,           \* CityParkingPermitAPI._default_code
    task                    \* per caller: position, operation and locals

vars == <<config, token, authenticated, permit_media_type_id, login_lock,
          default_type_id, default_code, task>>

\* The whole state as one value, so that a step is a function of it.
Cur ==
    [config |-> config, token |-> token, authenticated |-> authenticated,
     permit_media_type_id |-> permit_media_type_id, login_lock |-> login_lock,
     default_type_id |-> default_type_id, default_code |-> default_code,
     task |-> task]

Becomes(S) ==
    /\ config' = S.config
    /\ token' = S.token
    /\ authenticated' = S.authenticated
    /\ permit_media_type_id' = S.permit_media_type_id
    /\ login_lock' = S.login_lock
    /\ default_type_id' = S.default_type_id
    /\ default_code' = S.default_code
    /\ task' = S.task

NoOp ==
    [name |-> "none", auth_required |-> TRUE, tid |-> PyNone, code |-> PyNone,
     plate |-> PyNone, fname |-> PyNone, date_from |-> PyNone,
     date_until |-> PyNone]

NoPayload == [tid |-> PyNone, code |-> PyNone, name |-> PyNone]

\* pc: idle, wait_lock, types_get, login_post, data, done.
\* stage: the wire call of the operation that is in progress; then: the
\* mutation that follows a defaults fetch.  login_tid: permitMediaTypeID of the
\* credential POST in flight.  payload: body of the data request in flight.
\* History of the current request() call: first401 (its first attempt was
\* answered 401/403), relogin (the _login() calls it started after that).
\* Kept when the operation ends: op, result and ended (the position at which
\* it ended).
IdleTask ==
    [pc |-> "idle", op |-> NoOp, stage |-> "none", then |-> "none",
     attempt |-> 0, headers |-> PyNone, login_tid |-> PyNone,
     payload |-> NoPayload, date_from |-> PyNone, existing_name |-> PyNone,
     result |-> NoResult, first401 |-> FALSE, relogin |-> 0,
     ended |-> "none"]

\* ---------------------------------------------------------------- Auth

DEFAULT_TIMEOUT == 20

\* base_url.rstrip("/")
RECURSIVE rstrip_slash(_)
rstrip_slash(s) ==
    IF s # <<>> /\ s[Len(s)] = "/" THEN rstrip_slash(SubSeq(s, 1, Len(s) - 1))
    ELSE s

\* Auth.__init__: the exception it raises, or the fields of the new object
Auth_init(username, password, base_url, kwargs) ==
    LET timeout == IF kwargs.timeout = PyNone THEN DEFAULT_TIMEOUT
                   ELSE kwargs.timeout.n
        ValueError(msg) == [ok |-> FALSE, exc |-> Exc("ValueError", msg)]
    IN  IF kwargs.unexpected
        THEN [ok |-> FALSE, exc |-> Exc("TypeError", "Unexpected keyword arguments")]
        ELSE IF username = <<>> \/ strip(username) = <<>>
        THEN ValueError("username must be a non-empty string")
        ELSE IF password = <<>> \/ strip(password) = <<>>
        THEN ValueError("password must be a non-empty string")
        ELSE IF base_url = <<>> \/ strip(base_url) = <<>>
        THEN ValueError("base_url must be a non-empty string")
        ELSE IF timeout <= 0
        THEN ValueError("timeout must be greater than zero")
        ELSE [ok |-> TRUE,
              config |-> [identifier |-> username, password |-> password,
                          base_url |-> rstrip_slash(base_url), timeout |-> timeout],
              permit_media_type_id |-> kwargs.permit_media_type_id,
              token |-> PyNone, authenticated |-> FALSE,
              login_lock |-> [holder |-> NoCaller, waiters |-> <<>>]]

\* base64.b64encode(...): kept apart from the raw token
b64encode(s) == [b64 |-> s]

\* Auth._build_authorization_header
build_authorization_header(S) ==
    IF S.token = PyNone
    THEN [ok |-> FALSE, v |-> PyNone]
    ELSE [ok |-> TRUE, v |-> [scheme |-> "Token", value |-> b64encode(S.token.s)]]

\* Auth._merge_headers: the Authorization entry request() puts into the merged
\* headers.  Headers passed by the caller are merged over it (lines 240-241);
\* the facade passes none and they are not part of the model.
merge_headers(S, auth_required) ==
    IF auth_required THEN build_authorization_header(S)
    ELSE [ok |-> TRUE, v |-> PyNone]

\* Auth._invalidate_session clearing the flag and leaving the token
invalidate_session_flag_only(S) ==
    [S EXCEPT !.authenticated = FALSE]

\* Auth._invalidate_session clearing the token and leaving the flag
invalidate_session_token_only(S) ==
    [S EXCEPT !.token = PyNone]

\* Auth._invalidate_session
invalidate_session(S) ==
    [S EXCEPT !.authenticated = FALSE, !.token = PyNone]

\* the call of caller c ends: a value is returned or an exception propagates;
\* the frames of the call are gone, its operation and outcome remain
Done(S, c, res) ==
    [S EXCEPT !.task[c] = [IdleTask EXCEPT !.pc = "done", !.op = S.task[c].op,
                                           !.result = res,
                                           !.ended = S.task[c].pc]]

\* asyncio.Lock: acquire when free and nobody queued; release
acquire(S, c) == [S EXCEPT !.login_lock.holder = c]
release(S) == [S EXCEPT !.login_lock.holder = NoCaller]
LockFree(S) == S.login_lock.holder = NoCaller /\ S.login_lock.waiters = <<>>

\* Auth.request, lines 84-99: headers were merged, the transport call is issued
send(S, c, h) ==
    [S EXCEPT !.task[c].pc = "data",
              !.task[c].headers = h,
              !.task[c].attempt = @ + 1]

\* Auth.request after _ensure_logged_in returned: merge headers, send
build_and_send(S, c) ==
    LET Merged(h) ==
            IF h.ok THEN send(S, c, h.v)
            ELSE Done(S, c, AuthError("Authentication token missing"))
    IN  Merged(merge_headers(S, S.task[c].op.auth_required))

\* what follows a completed _ensure_logged_in
after_ensure(S, c) ==
    IF S.task[c].op.name = "ensure_logged_in" THEN Done(S, c, Returned(PyNone))
    ELSE build_and_send(S, c)

\* Auth._login, lines 134-150: the credential POST is issued
post_login(S, c) ==
    [S EXCEPT !.task[c].pc = "login_post",
              !.task[c].login_tid = S.permit_media_type_id]

\* Auth._login fetching the types list on every login
login_always_fetch(S, c) ==
    [S EXCEPT !.task[c].pc = "types_get",
              !.task[c].relogin = IF S.task[c].first401 THEN @ + 1 ELSE @]

\* Auth._login, lines 131-132, then _fetch_default_type_id up to its GET
login(S, c) ==
    LET S1 == [S EXCEPT !.task[c].relogin =
                            IF S.task[c].first401 THEN @ + 1 ELSE @]
    IN  IF S1.permit_media_type_id = PyNone
        THEN [S1 EXCEPT !.task[c].pc = "types_get"]
        ELSE post_login(S1, c)

\* Auth._ensure_logged_in without the lock
ensure_logged_in_unlocked(S, c) ==
    IF S.authenticated THEN after_ensure(S, c) ELSE login(S, c)

\* Auth._ensure_logged_in up to its first suspension
ensure_logged_in(S, c) ==
    IF S.authenticated THEN after_ensure(S, c)
    ELSE IF LockFree(S) THEN login(acquire(S, c), c)
    ELSE [S EXCEPT !.task[c].pc = "wait_lock",
                   !.login_lock.waiters = Append(@, c)]

\* Auth._ensure_logged_in without the second check under the lock
ensure_locked_no_recheck(S, c) ==
    login(S, c)

\* Auth._ensure_logged_in resumed with the lock: the second check
ensure_locked(S, c) ==
    IF S.authenticated THEN after_ensure(release(S), c)
    ELSE login(S, c)

\* Auth._fetch_default_type_id, lines 188-216: the outcome of the GET
fetch_default_type_id(answer) ==
    LET TypeId(type_id, n) ==
            IF type_id = PyNone \/ type_id.t \notin {"int", "bool", "str"}
            THEN [ok |-> FALSE, exc |-> AuthError("Invalid permit media type ID")]
            ELSE IF ~n.ok
            THEN [ok |-> FALSE, exc |-> AuthError("Invalid permit media type ID")]
            ELSE [ok |-> TRUE, v |-> PyInt(n.v)]
        First(type_id) == TypeId(type_id, int(type_id))
        Types(raw_types) ==
            IF ~IsList(raw_types)
            THEN [ok |-> FALSE, exc |-> AuthError("Expected PermitMediaTypes list")]
            ELSE IF raw_types.l = <<>>
            THEN [ok |-> FALSE, exc |-> AuthError("No permit media types available")]
            ELSE IF \E i \in 1..Len(raw_types.l) : ~IsMapping(raw_types.l[i])
            THEN [ok |-> FALSE, exc |-> AuthError("Invalid permit media type entry")]
            ELSE First(DictGet(raw_types.l[1], "ID"))
        Body(data) ==
            IF ~data.ok
            THEN [ok |-> FALSE, exc |-> AuthError("Response body is not valid JSON")]
            ELSE IF ~IsMapping(data.v)
            THEN [ok |-> FALSE, exc |-> AuthError("Expected login object")]
            ELSE Types(DictGet(data.v, "PermitMediaTypes"))
    IN  IF answer.kind = "error"
        THEN [ok |-> FALSE, exc |-> ParkingConnectionError("Login request failed")]
        ELSE IF answer.status = 429
        THEN [ok |-> FALSE,
              exc |-> RateLimitError(parse_retry_after(answer.retry_after))]
        ELSE IF answer.status >= 400
        THEN [ok |-> FALSE, exc |-> AuthError("Authentication failed")]
        ELSE Body(async_json(answer.body))

\* Auth._login without the LoginStatus check
login_outcome_no_status(answer) ==
    IF answer.kind = "error"
    THEN [ok |-> FALSE, exc |-> ParkingConnectionError("Login request failed")]
    ELSE IF answer.status = 429
    THEN [ok |-> FALSE,
          exc |-> RateLimitError(parse_retry_after(answer.retry_after))]
    ELSE IF answer.status >= 400
    THEN [ok |-> FALSE, exc |-> AuthError("Authentication failed")]
    ELSE LET data == async_json(answer.body) IN
    IF ~data.ok
    THEN [ok |-> FALSE, exc |-> AuthError("Response body is not valid JSON")]
    ELSE IF ~IsMapping(data.v)
    THEN [ok |-> FALSE, exc |-> AuthError("Authentication failed")]
    ELSE IF ~Truthy(DictGet(data.v, "Token"))
    THEN [ok |-> FALSE, exc |-> AuthError("Authentication failed")]
    ELSE [ok |-> TRUE, v |-> DictGet(data.v, "Token")]

\* Auth._login, lines 151-173: the outcome of the credential POST
login_outcome(answer) ==
    IF answer.kind = "error"
    THEN [ok |-> FALSE, exc |-> ParkingConnectionError("Login request failed")]
    ELSE IF answer.status = 429
    THEN [ok |-> FALSE,
          exc |-> RateLimitError(parse_retry_after(answer.retry_after))]
    ELSE IF answer.status \in {401, 403}
    THEN [ok |-> FALSE, exc |-> AuthError("Authentication failed")]
    ELSE IF answer.status >= 400
    THEN [ok |-> FALSE, exc |-> AuthError("Authentication failed")]
    ELSE LET data == async_json(answer.body) IN
    IF ~data.ok
    THEN [ok |-> FALSE, exc |-> AuthError("Response body is not valid JSON")]
    ELSE IF ~IsMapping(data.v)
    THEN [ok |-> FALSE, exc |-> AuthError("Authentication failed")]
    ELSE IF DictGet(data.v, "LoginStatus") = PyInt(2)
    THEN [ok |-> FALSE, exc |-> AuthError("Authentication failed: message")]
    ELSE IF ~Truthy(DictGet(data.v, "Token"))
    THEN [ok |-> FALSE, exc |-> AuthError("Authentication failed")]
    ELSE [ok |-> TRUE, v |-> DictGet(data.v, "Token")]

\* Auth._login, lines 175-176
store_token(S, tok) ==
    [S EXCEPT !.token = PyStr(str(tok)), !.authenticated = TRUE]


\* ---------------------------------------------------------------- request

\* Auth.request, lines 80-89: a new request() call of caller c starts
start_request(S, c, stage) ==
    LET S1 == [S EXCEPT !.task[c].stage = stage,
                        !.task[c].attempt = 0,
                        !.task[c].headers = PyNone,
                        !.task[c].login_tid = PyNone,
                        !.task[c].relogin = 0,
                        !.task[c].first401 = FALSE]
    IN  IF S1.task[c].op.auth_required THEN ensure_logged_in(S1, c)
        ELSE build_and_send(S1, c)

(***************************************************************************)
(* api.py: CityParkingPermitAPI.  An effect is the state after a helper    *)
(* ran, with its value or the exception it raised.                         *)
(***************************************************************************)
Eff(S, r) == [S |-> S, ok |-> r.ok, v |-> r.v, exc |-> r.exc]

\* the outcome of a parser as the result of the operation
Outcome(r) == IF r.ok THEN Returned(r.v) ELSE r.exc

\* response.raise_for_status(); data = await async_json(response, on_error=ParseError)
decode(answer) ==
    LET Json(data) ==
            IF data.ok THEN Ok(data.v)
            ELSE Raise(ParseError("Response body is not valid JSON"))
    IN  IF answer.status >= 400 THEN Raise(ClientResponseError(answer.status))
        ELSE Json(async_json(answer.body))

\* _update_defaults dropping the stored type id when the new one is invalid
update_defaults_clearing(S, permit_media) ==
    LET Code(S1) ==
            IF HasKey(permit_media, "Code") /\ IsStr(permit_media.d.Code)
            THEN Eff([S1 EXCEPT !.default_code = permit_media.d.Code], Ok(PyNone))
            ELSE Eff(S1, Raise(ParseError("Invalid permit media Code")))
        TypeId(type_id) ==
            IF ~type_id.ok
            THEN Eff([S EXCEPT !.default_type_id = PyNone],
                     Raise(ParseError("Invalid permit media TypeID")))
            ELSE Code([S EXCEPT !.default_type_id = PyInt(type_id.v)])
    IN  TypeId(IF HasKey(permit_media, "TypeID")
               THEN int(permit_media.d.TypeID)
               ELSE [ok |-> FALSE, v |-> 0])

\* CityParkingPermitAPI._update_defaults
update_defaults(S, permit_media) ==
    LET Code(S1) ==
            IF HasKey(permit_media, "Code") /\ IsStr(permit_media.d.Code)
            THEN Eff([S1 EXCEPT !.default_code = permit_media.d.Code], Ok(PyNone))
            ELSE Eff(S1, Raise(ParseError("Invalid permit media Code")))
        TypeId(type_id) ==
            IF ~type_id.ok
            THEN Eff(S, Raise(ParseError("Invalid permit media TypeID")))
            ELSE Code([S EXCEPT !.default_type_id = PyInt(type_id.v)])
    IN  TypeId(IF HasKey(permit_media, "TypeID")
               THEN int(permit_media.d.TypeID)
               ELSE [ok |-> FALSE, v |-> 0])

\* CityParkingPermitAPI._update_defaults_from_response
update_defaults_from_response(S, data) ==
    LET Media(pm) == IF ~pm.ok THEN Eff(S, pm) ELSE update_defaults(S, pm.v.permit_media)
    IN  Media(extract_permit_media(data))

\* CityParkingPermitAPI._maybe_update_defaults_from_response
maybe_update_defaults_from_response(S, data) ==
    IF data = PyNone THEN Eff(S, Ok(PyNone))
    ELSE IF ~IsMapping(data) THEN Eff(S, Ok(PyNone))
    ELSE IF ~HasKey(data, "Permit") /\ ~HasKey(data, "Permits")
    THEN Eff(S, Ok(PyNone))
    ELSE update_defaults_from_response(S, data)

\* the mutation request of a stage is built and request() is entered
mutation_request(S, c, stage, type_id, code, now) ==
    LET op == S.task[c].op
        name == CASE stage = "remove" -> S.task[c].existing_name
                  [] stage \in {"upsert", "create"} -> op.fname
                  [] OTHER -> PyNone
        actual_date_from ==
            IF stage # "create" THEN S.task[c].date_from
            ELSE IF op.date_from # PyNone THEN op.date_from ELSE LocalNow(now)
        S1 == start_request(S, c, stage)
    IN  [S1 EXCEPT !.task[c].payload = [tid |-> type_id, code |-> code, name |-> name],
                   !.task[c].date_from = actual_date_from]

\* CityParkingPermitAPI._ensure_media_defaults, lines 207-214, then the caller
resolve_media_defaults(S, c, arg_type_id, arg_code, stage, now) ==
    LET fill == arg_type_id = PyNone \/ arg_code = PyNone
        type_id == IF fill /\ arg_type_id = PyNone THEN S.default_type_id
                   ELSE arg_type_id
        code == IF fill /\ arg_code = PyNone THEN S.default_code ELSE arg_code
    IN  IF type_id = PyNone \/ code = PyNone
        THEN Done(S, c, ParseError("Missing permit media defaults"))
        ELSE mutation_request(S, c, stage, type_id, code, now)

\* _ensure_media_defaults fetching the permit whenever a value is omitted
ensure_media_defaults_always_fetch(S, c, arg_type_id, arg_code, stage, now) ==
    IF arg_type_id = PyNone \/ arg_code = PyNone
    THEN start_request([S EXCEPT !.task[c].then = stage], c, "defaults")
    ELSE resolve_media_defaults(S, c, arg_type_id, arg_code, stage, now)

\* CityParkingPermitAPI._ensure_media_defaults, lines 203-205
ensure_media_defaults(S, c, arg_type_id, arg_code, stage, now) ==
    IF /\ arg_type_id = PyNone \/ arg_code = PyNone
       /\ S.default_type_id = PyNone \/ S.default_code = PyNone
    THEN start_request([S EXCEPT !.task[c].then = stage], c, "defaults")
    ELSE resolve_media_defaults(S, c, arg_type_id, arg_code, stage, now)

\* the (type id, code) arguments a stage passes to _ensure_media_defaults
StageArgs(op, stage) ==
    IF stage \in {"create", "end"} THEN <<op.tid, op.code>> ELSE <<PyNone, PyNone>>

\* async_update_favorite removing the favorite under the new name
update_favorite_found_new_name(S, c, favorites, now) ==
    LET plate == S.task[c].op.plate
        hits == {i \in 1..Len(favorites) : favorites[i].d.license_plate = plate}
    IN  IF hits = {}
        THEN ensure_media_defaults(S, c, PyNone, PyNone, "upsert", now)
        ELSE ensure_media_defaults(
                [S EXCEPT !.task[c].existing_name = S.task[c].op.fname],
                c, PyNone, PyNone, "remove", now)

\* CityParkingPermitAPI.async_update_favorite, lines 142-155
update_favorite_found(S, c, favorites, now) ==
    LET plate == S.task[c].op.plate
        hits == {i \in 1..Len(favorites) : favorites[i].d.license_plate = plate}
    IN  IF hits = {}
        THEN ensure_media_defaults(S, c, PyNone, PyNone, "upsert", now)
        ELSE LET first == CHOOSE i \in hits : \A j \in hits : i <= j
             IN  ensure_media_defaults(
                    [S EXCEPT !.task[c].existing_name = favorites[first].d.name],
                    c, PyNone, PyNone, "remove", now)

\* CityParkingPermitAPI._fetch_permit, lines 224-226, and what its caller does
after_fetch_permit(S, c, data, now) ==
    LET op == S.task[c].op
        stage == S.task[c].then
        Favorites(S1, favorites) ==
            IF ~favorites.ok THEN Done(S1, c, favorites.exc)
            ELSE update_favorite_found(S1, c, favorites.v.l, now)
        Resolved(u) ==
            IF ~u.ok THEN Done(u.S, c, u.exc)
            ELSE resolve_media_defaults(u.S, c, StageArgs(op, stage)[1],
                                        StageArgs(op, stage)[2], stage, now)
        Fetched(S1, permit, permit_media) ==
            IF S.task[c].stage = "defaults"
            THEN Resolved(update_defaults(S1, permit_media))
            ELSE CASE op.name = "get_account" ->
                        Done(S1, c, Outcome(Account_from_mapping(permit_media)))
                   [] op.name = "get_zone" ->
                        Done(S1, c, Outcome(Zone_from_mapping(permit, now)))
                   [] op.name = "list_reservations" ->
                        Done(S1, c, Outcome(ParseItems(
                            DictGet(permit_media, "ActiveReservations"),
                            "reservation")))
                   [] op.name = "list_favorites" ->
                        Done(S1, c, Outcome(ParseItems(
                            DictGet(permit_media, "LicensePlates"),
                            "favorite")))
                   [] op.name = "update_favorite" ->
                        Favorites(S1, ParseItems(
                            DictGet(permit_media, "LicensePlates"),
                            "favorite"))
        Updated(pm, u) ==
            IF ~u.ok THEN Done(u.S, c, u.exc)
            ELSE Fetched(u.S, pm.v.permit, pm.v.permit_media)
        Media(pm) ==
            IF ~pm.ok THEN Done(S, c, pm.exc)
            ELSE Updated(pm, update_defaults(S, pm.v.permit_media))
    IN  Media(extract_permit_media(data))

\* the facade operation resumes when request() returned the response (S is
\* the state request() left; a call that request() ended or retried is as is)
on_response(S, c, answer, now) ==
    LET t == S.task[c]
        op == t.op
        Ended(u) == Done(u.S, c, Outcome(u))
        Removed(u) ==
            IF ~u.ok THEN Done(u.S, c, u.exc)
            ELSE IF op.name = "delete_favorite"
            THEN Done(u.S, c, Returned(PyNone))
            ELSE ensure_media_defaults(u.S, c, PyNone, PyNone, "upsert", now)
        Upserted(u) ==
            IF ~u.ok THEN Done(u.S, c, u.exc)
            ELSE Done(u.S, c, Returned(Favorite(op.plate, op.fname)))
        Decoded(data) ==
            IF ~data.ok THEN Done(S, c, data.exc)
            ELSE CASE t.stage \in {"getbase", "defaults"} ->
                        after_fetch_permit(S, c, data.v, now)
                   [] t.stage = "create" ->
                        Done(S, c, Outcome(pick_reservation_from_permit(
                                data.v, op.plate, t.date_from, op.date_until)))
                   [] t.stage = "end" ->
                        Ended(update_defaults_from_response(S, data.v))
                   [] t.stage = "remove" ->
                        Removed(maybe_update_defaults_from_response(S, data.v))
                   [] t.stage = "upsert" ->
                        Upserted(maybe_update_defaults_from_response(S, data.v))
    IN  IF t.pc # "responded" THEN S ELSE Decoded(decode(answer))

\* Auth.request retrying after every 401/403, whatever the attempt
request_answered_always_retry(S, c, answer) ==
    IF answer.kind = "error"
    THEN Done(S, c, ParkingConnectionError("Request failed"))
    ELSE IF answer.status = 429
    THEN Done(S, c, RateLimitError(parse_retry_after(answer.retry_after)))
    ELSE IF S.task[c].op.auth_required /\ answer.status \in {401, 403}
    THEN ensure_logged_in([invalidate_session(S) EXCEPT !.task[c].first401 = TRUE], c)
    ELSE [S EXCEPT !.task[c].pc = "responded"]

\* Auth.request invalidating the session on 429 as on 401/403
request_answered_429_invalidates(S, c, answer) ==
    IF answer.kind = "error"
    THEN Done(S, c, ParkingConnectionError("Request failed"))
    ELSE IF answer.status = 429
    THEN Done(invalidate_session(S), c,
              RateLimitError(parse_retry_after(answer.retry_after)))
    ELSE IF S.task[c].op.auth_required /\ answer.status \in {401, 403}
    THEN LET S1 == invalidate_session(S) IN
         IF S1.task[c].attempt = 1
         THEN ensure_logged_in([S1 EXCEPT !.task[c].first401 = TRUE], c)
         ELSE Done(S1, c, AuthError("Authentication failed"))
    ELSE [S EXCEPT !.task[c].pc = "responded"]

\* Auth.request dropping the session when the transport fails
request_answered_error_invalidates(S, c, answer) ==
    IF answer.kind = "error"
    THEN Done(invalidate_session(S), c, ParkingConnectionError("Request failed"))
    ELSE IF answer.status = 429
    THEN Done(S, c, RateLimitError(parse_retry_after(answer.retry_after)))
    ELSE IF S.task[c].op.auth_required /\ answer.status \in {401, 403}
    THEN LET S1 == invalidate_session(S) IN
         IF S1.task[c].attempt = 1
         THEN ensure_logged_in([S1 EXCEPT !.task[c].first401 = TRUE], c)
         ELSE Done(S1, c, AuthError("Authentication failed"))
    ELSE [S EXCEPT !.task[c].pc = "responded"]

\* Auth.request retrying a 401/403 with the headers of the first attempt
request_answered_stale_retry(S, c, answer) ==
    IF answer.kind = "error"
    THEN Done(S, c, ParkingConnectionError("Request failed"))
    ELSE IF answer.status = 429
    THEN Done(S, c, RateLimitError(parse_retry_after(answer.retry_after)))
    ELSE IF S.task[c].op.auth_required /\ answer.status \in {401, 403}
    THEN LET S1 == invalidate_session(S) IN
         IF S1.task[c].attempt = 1
         THEN send([S1 EXCEPT !.task[c].first401 = TRUE], c, S.task[c].headers)
         ELSE Done(S1, c, AuthError("Authentication failed"))
    ELSE [S EXCEPT !.task[c].pc = "responded"]

\* Auth.request handling 401/403 without looking at auth_required
request_answered_401_any(S, c, answer) ==
    IF answer.kind = "error"
    THEN Done(S, c, ParkingConnectionError("Request failed"))
    ELSE IF answer.status = 429
    THEN Done(S, c, RateLimitError(parse_retry_after(answer.retry_after)))
    ELSE IF answer.status \in {401, 403}
    THEN LET S1 == invalidate_session(S) IN
         IF S1.task[c].attempt = 1
         THEN ensure_logged_in([S1 EXCEPT !.task[c].first401 = TRUE], c)
         ELSE Done(S1, c, AuthError("Authentication failed"))
    ELSE [S EXCEPT !.task[c].pc = "responded"]

\* Auth.request, lines 100-116: the transport call of caller c is answered;
\* at "responded" request() returns the response to its caller
request_answered(S, c, answer) ==
    IF answer.kind = "error"
    THEN Done(S, c, ParkingConnectionError("Request failed"))
    ELSE IF answer.status = 429
    THEN Done(S, c, RateLimitError(parse_retry_after(answer.retry_after)))
    ELSE IF S.task[c].op.auth_required /\ answer.status \in {401, 403}
    THEN LET S1 == invalidate_session(S) IN
         IF S1.task[c].attempt = 1
         THEN ensure_logged_in([S1 EXCEPT !.task[c].first401 = TRUE], c)
         ELSE Done(S1, c, AuthError("Authentication failed"))
    ELSE [S EXCEPT !.task[c].pc = "responded"]

\* a direct caller of Auth.request receives the response
request_returned(S, c, answer) ==
    IF S.task[c].pc = "responded"
    THEN Done(S, c, Returned(PyInt(answer.status)))
    ELSE S

\* a facade operation waiting in request(): request() handles the answer, the
\* operation goes on with the response in the same step
facade_answered(S, c, answer, now) ==
    on_response(request_answered(S, c, answer), c, answer, now)

\* _ensure_logged_in keeping the lock when the types GET fails
types_answered_no_release(S, c, answer) ==
    LET Fetched(r) ==
            IF r.ok THEN post_login([S EXCEPT !.permit_media_type_id = r.v], c)
            ELSE Done(S, c, r.exc)
    IN  Fetched(fetch_default_type_id(answer))

\* Auth._ensure_logged_in: the types GET of caller c is answered
types_answered(S, c, answer) ==
    LET Fetched(r) ==
            IF r.ok THEN post_login([S EXCEPT !.permit_media_type_id = r.v], c)
            ELSE Done(release(S), c, r.exc)
    IN  Fetched(fetch_default_type_id(answer))

\* _ensure_logged_in keeping the lock after a successful login
login_answered_holding(S, c, answer) ==
    LET Answered(r) ==
            IF r.ok THEN after_ensure(store_token(S, r.v), c)
            ELSE Done(release(S), c, r.exc)
    IN  Answered(login_outcome(answer))

\* _ensure_logged_in keeping the lock when the credential POST fails
login_answered_no_release(S, c, answer) ==
    LET Answered(r) ==
            IF r.ok THEN after_ensure(release(store_token(S, r.v)), c)
            ELSE Done(S, c, r.exc)
    IN  Answered(login_outcome(answer))

\* Auth._ensure_logged_in: the credential POST of caller c is answered
login_answered(S, c, answer) ==
    LET Answered(r) ==
            IF r.ok THEN after_ensure(release(store_token(S, r.v)), c)
            ELSE Done(release(S), c, r.exc)
    IN  Answered(login_outcome(answer))

\* ---------------------------------------------------------------- inputs

Chars2025_12_23 == <<"2", "0", "2", "5", "-", "1", "2", "-", "2", "3">>
T0047 == Chars2025_12_23 \o <<"T", "0", "0", ":", "4", "7", ":", "0", "0">>
T2359 == Chars2025_12_23 \o <<"T", "2", "3", ":", "5", "9", ":", "0", "0">>
T0900p1 == Chars2025_12_23
           \o <<"T", "0", "9", ":", "0", "0", ":", "0", "0", "+", "0", "1", ":", "0", "0">>
T1800p1 == Chars2025_12_23
           \o <<"T", "1", "8", ":", "0", "0", ":", "0", "0", "+", "0", "1", ":", "0", "0">>

PlateAA == PyStr(<<"A", "A">>)
PlateBB == PyStr(<<"B", "B">>)
NameOld == PyStr(<<"o", "l", "d">>)
NameNew == PyStr(<<"n", "e", "w">>)

ReservationItem(plate) ==
    PyDict([ReservationID |-> PyInt(18),
            ValidFrom |-> PyStr(T0047), ValidUntil |-> PyStr(T2359),
            LicensePlate |-> PyDict([DisplayValue |-> plate, Value |-> plate])])

LicensePlateItem(plate, name) == PyDict([Value |-> plate, Name |-> name])

BlockTimeItem ==
    PyDict([IsFree |-> PyBool(FALSE),
            ValidFrom |-> PyStr(T0900p1), ValidUntil |-> PyStr(T1800p1)])

PermitMedia(type_id, code) ==
    PyDict([TypeID |-> type_id, Code |-> code, Balance |-> PyInt(69),
            ActiveReservations |-> PyList(<<ReservationItem(PlateAA)>>),
            LicensePlates |-> PyList(<<LicensePlateItem(PlateAA, NameOld)>>)])

PermitOf(medias) ==
    PyDict([ZoneCode |-> PyStr(<<"z", "4">>), PermitMedias |-> medias,
            BlockTimes |-> PyList(<<BlockTimeItem>>)])

Code32 == PyStr(<<"3", "2">>)
CodeB == PyStr(<<"B">>)

\* Bodies of the data endpoints.
DataBodies ==
    {EmptyBody, InvalidBody, JsonBody(PyList(<<>>)), JsonBody(EmptyDict),
     JsonBody(PyDict([Permit |-> PermitOf(PyList(<<PermitMedia(PyInt(1), Code32)>>))])),
     JsonBody(PyDict([Permits |->
        PyList(<<PermitOf(PyList(<<PermitMedia(PyInt(2), CodeB),
                                   PermitMedia(PyInt(1), Code32)>>))>>)])),
     JsonBody(PyDict([Permit |-> PermitOf(PyList(<<
        [PermitMedia(PyInt(1), Code32) EXCEPT !.d.ActiveReservations =
            PyList(<<ReservationItem(PlateBB),
                     [ReservationItem(PlateAA) EXCEPT
                            !.d.ValidFrom = PyStr(T0900p1),
                            !.d.ValidUntil = PyStr(T1800p1)],
                     ReservationItem(PlateAA)>>)]>>))])),
     JsonBody(PyDict([Permit |-> PermitOf(PyList(<<PermitMedia(PyInt(2), PyInt(5))>>))])),
     JsonBody(PyDict([Permit |-> PermitOf(PyList(<<
        PyDict([Code |-> Code32, Balance |-> PyInt(69)])>>))])),
     JsonBody(PyDict([Permit |-> PermitOf(PyList(<<PermitMedia(PyNone, CodeB)>>))])),
     JsonBody(PyDict([Permit |-> PermitOf(PyList(<<>>))])),
     JsonBody(PyDict([Permits |-> PyList(<<>>)])),
     JsonBody(PyDict([Permit |-> PyInt(5)]))}

\* The answers of the data endpoints in the facade specification; the session
\* specification runs the full status and header sets.
DataAnswers ==
    {TransportError}
    \cup {Response(429, h, EmptyBody) : h \in {PyNone, PyStr(<<"6", "0">>)}}
    \cup {Response(st, PyNone, b) : st \in {200, 401, 500}, b \in DataBodies}

\* datetime.now() of the environment: a UTC instant and the local UTC offset
Nows == {[day |-> DaysFromCivil(2025, 12, 23), sec |-> 8 * 3600, us |-> 5,
          local_off |-> 60]}

DateFrom == fromisoformat(T0047).v
DateUntil == fromisoformat(T2359).v

\* (type id, code) as a caller can pass them to a mutating operation
MediaArgs == {<<PyNone, PyNone>>, <<PyInt(9), PyStr(<<"Z">>)>>, <<PyInt(9), PyNone>>}

AuthOps ==
    {[NoOp EXCEPT !.name = "ensure_logged_in"]}
    \cup {[NoOp EXCEPT !.name = "request", !.auth_required = a] : a \in BOOLEAN}

EnsureOps == {[NoOp EXCEPT !.name = "ensure_logged_in"]}

BackgroundOps == {[NoOp EXCEPT !.name = "get_account"]}

FacadeOps ==
    {[NoOp EXCEPT !.name = n] :
            n \in {"get_account", "get_zone", "list_reservations", "list_favorites"}}
    \cup {[NoOp EXCEPT !.name = "create_reservation", !.plate = PlateAA,
                       !.tid = m[1], !.code = m[2],
                       !.date_from = d[1], !.date_until = d[2]] :
            m \in MediaArgs, d \in {<<PyNone, PyNone>>, <<DateFrom, DateUntil>>}}
    \cup {[NoOp EXCEPT !.name = "end_reservation", !.tid = m[1], !.code = m[2]] :
            m \in MediaArgs}
    \cup {[NoOp EXCEPT !.name = n, !.plate = PlateAA, !.fname = NameNew] :
            n \in {"create_favorite", "update_favorite", "delete_favorite"}}
    \cup {[NoOp EXCEPT !.name = "update_favorite", !.plate = PlateBB,
                       !.fname = NameNew]}

\* the operations caller c runs in the facade specification
OpsOf(c) == IF c <= NumFacadeCallers THEN FacadeOps ELSE BackgroundOps

AuthDataAnswers ==
    {TransportError} \cup ResponsesWith({EmptyBody, JsonBody(EmptyDict)})

\* the operation of caller c up to its first suspension
start_op(S, c, op, now) ==
    LET S1 == [S EXCEPT !.task[c] = [IdleTask EXCEPT !.op = op,
                                                     !.existing_name = op.fname]]
    IN  CASE op.name = "ensure_logged_in" -> ensure_logged_in(S1, c)
          [] op.name = "request" -> start_request(S1, c, "request")
          [] op.name \in {"get_account", "get_zone", "list_reservations",
                          "list_favorites", "update_favorite"} ->
                start_request(S1, c, "getbase")
          [] op.name = "create_reservation" ->
                ensure_media_defaults(S1, c, op.tid, op.code, "create", now)
          [] op.name = "end_reservation" ->
                ensure_media_defaults(S1, c, op.tid, op.code, "end", now)
          [] op.name = "create_favorite" ->
                ensure_media_defaults(S1, c, PyNone, PyNone, "upsert", now)
          [] op.name = "delete_favorite" ->
                ensure_media_defaults(S1, c, PyNone, PyNone, "remove", now)

\* Bodies for the parsers: permits with every short list of block times,
\* first permit-medias with one field of another JSON type, and every shape
\* _extract_permit_media tells apart.  The blocks are dated against Nows: the
\* 23rd at 08:00 UTC is the 23rd at +01:00 and the 22nd at -09:00.  Some
\* timestamps carry a fraction of a second, a Z suffix or no time at all.
ParseBodies ==
    LET Date(d) == <<"2", "0", "2", "5", "-", "1", "2", "-", "2", d>>
        At(d, hhmm, off) == PyStr(Date(d) \o <<"T">> \o hhmm \o <<":", "0", "0">> \o off)
        Frac(d, hhmm, frac, off) ==
            PyStr(Date(d) \o <<"T">> \o hhmm \o <<":", "0", "0", ".">> \o frac \o off)
        Minus9 == <<"-", "0", "9", ":", "0", "0">>
        Plus1 == <<"+", "0", "1", ":", "0", "0">>
        stamps ==
            {<<Frac("3", <<"0", "0", ":", "4", "7">>, <<"9", "9", "9", "9", "9", "9">>, <<>>),
               At("3", <<"2", "3", ":", "5", "9">>, <<"Z">>)>>,
             <<Frac("3", <<"0", "9", ":", "0", "0">>, <<"5">>, Plus1),
               Frac("3", <<"1", "8", ":", "0", "0">>, <<"2", "5">>, Plus1)>>,
             <<At("2", <<"2", "3", ":", "3", "0">>, Minus9), PyStr(Date("4"))>>}
        Block(free, from, until) ==
            PyDict([IsFree |-> free, ValidFrom |-> from, ValidUntil |-> until])
        blocks ==
            {Block(PyBool(TRUE), PyStr(T0047), PyStr(T2359)),
             BlockTimeItem,
             Block(PyBool(FALSE), PyStr(T0047), PyStr(T2359)),
             Block(PyNone, At("4", <<"0", "0", ":", "4", "7">>, <<>>),
                           At("4", <<"2", "3", ":", "5", "9">>, <<>>)),
             Block(PyBool(FALSE), At("2", <<"2", "3", ":", "3", "0">>, Minus9),
                                  At("3", <<"0", "2", ":", "0", "0">>, Minus9)),
             Block(PyBool(FALSE), At("3", <<"0", "1", ":", "0", "0">>, Minus9),
                                  At("3", <<"0", "2", ":", "0", "0">>, Minus9)),
             Block(PyBool(FALSE),
                   Frac("3", <<"0", "8", ":", "5", "9">>, <<"5">>, Plus1),
                   Frac("3", <<"1", "8", ":", "0", "0">>, <<"9", "9", "9", "9", "9", "9">>,
                        Plus1))}
        pm == PermitMedia(PyInt(1), Code32)
        odd == {PyNone, PyBool(FALSE), PyBool(TRUE), PyInt(0), PyStr(<<>>),
                EmptyDict, PyList(<<>>), PyStr(<<"x">>)}
        reservations ==
            {[ReservationItem(PlateAA) EXCEPT !.d.ReservationID = v] :
                    v \in {PyBool(TRUE), PyStr(<<"7">>), PyNone}}
            \cup {[ReservationItem(PlateAA) EXCEPT !.d.LicensePlate = v] :
                    v \in {PyNone, PlateAA}}
            \cup {[ReservationItem(PlateAA) EXCEPT !.d.ValidFrom = st[1],
                                                   !.d.ValidUntil = st[2]] :
                    st \in stamps}
            \cup {ReservationItem(PyInt(5)), PyInt(5),
                  [ReservationItem(PlateAA) EXCEPT !.d.ValidFrom = PyInt(5)],
                  [ReservationItem(PlateAA) EXCEPT !.d.ValidUntil = PyStr(<<"x">>)]}
        favorites ==
            {LicensePlateItem(PlateAA, PyNone), LicensePlateItem(PlateAA, PyInt(5)),
             LicensePlateItem(PyInt(5), NameOld), LicensePlateItem(PyNone, NameOld),
             PyStr(<<"x">>)}
        medias ==
            {[pm EXCEPT !.d.Balance = v] : v \in odd}
            \cup {[pm EXCEPT !.d.ActiveReservations = v] : v \in odd}
            \cup {[pm EXCEPT !.d.LicensePlates = v] : v \in odd}
            \cup {[pm EXCEPT !.d.ActiveReservations = PyList(<<r>>)] : r \in reservations}
            \cup {[pm EXCEPT !.d.LicensePlates = PyList(<<f>>)] : f \in favorites}
            \cup {PermitMedia(PyInt(2), PyStr(<<"7">>))}
        permits ==
            {[PermitOf(PyList(<<pm>>)) EXCEPT !.d.BlockTimes = PyList(l)] :
                    l \in {<<>>} \cup {<<a>> : a \in blocks}
                                \cup {<<a, b>> : a \in blocks, b \in blocks}}
            \cup {PermitOf(PyList(<<m>>)) : m \in medias}
            \cup {PermitOf(PyList(<<PermitMedia(PyInt(2), CodeB), pm>>))}
            \cup {PermitOf(v) : v \in {PyNone, PyList(<<>>), EmptyDict, PyInt(1),
                                        PyList(<<PyInt(1)>>), PyList(<<PyNone, pm>>)}}
            \cup {PyDict([ZoneCode |-> PyStr(<<"z", "4">>)]), PyInt(5), PyNone,
                  PyList(<<>>)}
    IN  {JsonBody(PyDict([Permit |-> p])) : p \in permits}
        \cup {JsonBody(PyDict([Permits |-> PyList(<<p>>)])) : p \in permits}
        \cup {JsonBody(PyDict([Permit |-> PermitOf(PyList(<<m>>)),
                               Permits |-> v])) :
                    m \in {PermitMedia(PyInt(3), PyStr(<<"7">>)), PyInt(1)},
                    v \in {PyList(<<PermitOf(PyList(<<PermitMedia(PyInt(2), CodeB)>>))>>),
                           PyInt(5)}}
        \cup {JsonBody(PyDict([Permits |-> v])) :
                    v \in {PyList(<<>>), PyNone, EmptyDict,
                           PyList(<<PermitOf(PyList(<<pm>>)), PyInt(5)>>)}}
        \cup {JsonBody(v) : v \in {EmptyDict, PyList(<<>>), PyInt(5), PyStr(<<"x">>),
                                    PyDict([Zone |-> PermitOf(PyList(<<pm>>))])}}
        \cup {EmptyBody, InvalidBody}

\* Arguments of Auth(session, username, password, base_url, **kwargs): texts
\* that are empty, blank or not, base URLs with and without trailing slashes,
\* timeouts omitted, negative, zero and positive, and a keyword that
\* Auth.__init__ does not know.
InitArgs ==
    {<<username, password, base_url,
       [timeout |-> timeout, permit_media_type_id |-> type_id,
        unexpected |-> unexpected]>> :
        username \in {<<>>, <<" ">>, <<"u">>, <<" ", "u">>},
        password \in {<<>>, <<" ", " ">>, <<"p">>},
        base_url \in {<<>>, <<" ">>, <<"h">>, <<"h", "/">>, <<"h", "/", "/">>,
                      <<"h", "/", "a", "/">>, <<"/">>, <<"/", "/">>, <<" ", "/">>,
                      <<"h", "/", " ">>},
        timeout \in {PyNone, PyInt(0 - 1), PyInt(0), PyInt(1)},
        type_id \in {PyNone, PyInt(1)},
        unexpected \in BOOLEAN}

\* the answers of /login/getbase and /reservation/create to the parsers
ParseAnswers == {TransportError} \cup {Response(200, PyNone, b) : b \in ParseBodies}

\* ---------------------------------------------------------------- actions

Init ==
    /\ config = [identifier |-> <<"u">>, password |-> <<"p">>,
                 base_url |-> <<"h">>, timeout |-> 20]
    /\ token = PyNone
    /\ authenticated = FALSE
    /\ permit_media_type_id \in {PyNone, PyInt(1)}
    /\ login_lock = [holder |-> NoCaller, waiters |-> <<>>]
    /\ default_type_id = PyNone
    /\ default_code = PyNone
    /\ task = [c \in Callers |-> IdleTask]

\* the application starts an operation of the menu on an idle caller
Call(c, ops) ==
    /\ task[c].pc = "idle"
    /\ \E op \in ops, now \in Nows : Becomes(start_op(Cur, c, op, now))

\* the application takes the outcome of a finished operation
Return(c) ==
    /\ task[c].pc = "done"
    /\ Becomes([Cur EXCEPT !.task[c] = IdleTask])

\* asyncio.Lock hands the released lock to the first waiter
LockGranted(c) ==
    /\ task[c].pc = "wait_lock"
    /\ login_lock.holder = NoCaller
    /\ login_lock.waiters # <<>>
    /\ Head(login_lock.waiters) = c
    /\ Becomes(ensure_locked(
            [Cur EXCEPT !.login_lock = [holder |-> c, waiters |-> Tail(@.waiters)]],
            c))

\* GET /login is answered
TypesAnswer(c, answers) ==
    /\ task[c].pc = "types_get"
    /\ \E answer \in answers : Becomes(types_answered(Cur, c, answer))

\* POST /login is answered
LoginAnswer(c, answers) ==
    /\ task[c].pc = "login_post"
    /\ \E answer \in answers : Becomes(login_answered(Cur, c, answer))

\* the data request of a facade operation is answered
DataAnswer(c, answers) ==
    /\ task[c].pc = "data"
    /\ \E answer \in answers, now \in Nows :
            Becomes(facade_answered(Cur, c, answer, now))

\* the data request of a direct request() call is answered
RequestAnswer(c, answers) ==
    /\ task[c].pc = "data"
    /\ \E answer \in answers :
            Becomes(request_returned(request_answered(Cur, c, answer), c, answer))

\* Auth.invalidate, called by the application at any time
Invalidate ==
    Becomes(invalidate_session(Cur))

\* the application calls Auth(...) while none of its calls is in flight: the
\* call raises, or the new object takes the place of the one in use
construct(S, c, r) ==
    LET S1 == [S EXCEPT !.task[c].op = [NoOp EXCEPT !.name = "Auth"]]
    IN  IF ~r.ok THEN Done(S1, c, r.exc)
        ELSE Done([S1 EXCEPT !.config = r.config,
                             !.permit_media_type_id = r.permit_media_type_id,
                             !.token = r.token,
                             !.authenticated = r.authenticated,
                             !.login_lock = r.login_lock],
                  c, Returned(PyNone))

Construct(c) ==
    /\ \A d \in Callers : task[d].pc = "idle"
    /\ \E a \in InitArgs :
            Becomes(construct(Cur, c, Auth_init(a[1], a[2], a[3], a[4])))

\* The facade over the session: every operation of CityParkingPermitAPI.
Next ==
    \/ \E c \in Callers : Call(c, OpsOf(c))
    \/ \E c \in Callers : Return(c)
    \/ \E c \in Callers : LockGranted(c)
    \/ \E c \in Callers : TypesAnswer(c, FewTypesAnswers)
    \/ \E c \in Callers : LoginAnswer(c, FewLoginAnswers)
    \/ \E c \in Callers : DataAnswer(c, DataAnswers)
    \/ Invalidate

Spec == Init /\ [][Next]_vars

\* The session alone: concurrent request() and _ensure_logged_in() calls
\* against every answer of the login endpoints.
NextAuth ==
    \/ \E c \in Callers : Call(c, AuthOps)
    \/ \E c \in Callers : Return(c)
    \/ \E c \in Callers : LockGranted(c)
    \/ \E c \in Callers : TypesAnswer(c, TypesAnswers)
    \/ \E c \in Callers : LoginAnswer(c, LoginAnswers)
    \/ \E c \in Callers : RequestAnswer(c, AuthDataAnswers)
    \/ Invalidate

SpecAuth == Init /\ [][NextAuth]_vars

\* The session with its environment's progress: every network call that is
\* awaited is answered (aiohttp answers or the ClientTimeout expires), and
\* asyncio.Lock wakes the first waiter once the lock is released.
SpecAuthFair ==
    /\ SpecAuth
    /\ \A c \in Callers :
            /\ WF_vars(LockGranted(c))
            /\ WF_vars(TypesAnswer(c, TypesAnswers))
            /\ WF_vars(LoginAnswer(c, LoginAnswers))
            /\ WF_vars(RequestAnswer(c, AuthDataAnswers))

\* One _ensure_logged_in() call per caller on the fresh session, the calls
\* concurrent: each starts before any of them has ended.
NextEnsure ==
    \/ \E c \in Callers :
            /\ \A d \in Callers : task[d].pc # "done"
            /\ Call(c, EnsureOps)
    \/ \E c \in Callers : LockGranted(c)
    \/ \E c \in Callers : TypesAnswer(c, TypesAnswers)
    \/ \E c \in Callers : LoginAnswer(c, LoginAnswers)

SpecEnsure == Init /\ [][NextEnsure]_vars

\* One caller reading the permit: the operations that parse a response, over
\* every body of ParseBodies.
NextParse ==
    \/ Call(1, {op \in FacadeOps :
                    /\ op.name \in {"get_account", "get_zone", "list_reservations",
                                    "list_favorites", "create_reservation"}
                    /\ op.name = "create_reservation" =>
                            op.tid # PyNone /\ op.code # PyNone})
    \/ Return(1)
    \/ TypesAnswer(1, FewTypesAnswers)
    \/ LoginAnswer(1, FewLoginAnswers)
    \/ DataAnswer(1, ParseAnswers)

SpecParse == Init /\ [][NextParse]_vars

\* Construction: the application makes Auth objects from every argument list
\* of InitArgs and sends requests through the one it has.
NextConstruct ==
    \/ Construct(1)
    \/ Call(1, AuthOps)
    \/ Return(1)
    \/ TypesAnswer(1, FewTypesAnswers)
    \/ LoginAnswer(1, FewLoginAnswers)
    \/ RequestAnswer(1, AuthDataAnswers)

SpecConstruct == Init /\ [][NextConstruct]_vars


(***************************************************************************)
(* Properties.                                                             *)
(***************************************************************************)
Ends(c) == task[c].pc # "done" /\ task'[c].pc = "done"

InLogin(c) == task[c].pc \in {"types_get", "login_post"}

LoginFailures == {"AuthError", "RateLimitError", "ParkingConnectionError"}

\* the Retry-After values of RetryAfterHeaders that are integers
ExpectedRetryAfter(h) ==
    CASE h = PyStr(<<"6", "0">>) -> PyInt(60)
      [] h = PyStr(<<" ", "7">>) -> PyInt(7)
      [] h = PyStr(<<"-", "5">>) -> PyInt(0 - 5)
      [] OTHER -> PyNone

\* C1: in every state (each is a suspension point of some caller, or follows
\* invalidate) the Session has no token and the flag is false, or it has a
\* token and the flag is true.
C1_SessionConsistent ==
    \/ token = PyNone /\ ~authenticated
    \/ token # PyNone /\ token.t = "str" /\ authenticated

\* a caller re-authenticates after a 401/403 while another caller's data
\* request, sent with the old token, is still in flight
C1_Witness ==
    \E c, d \in Callers :
        /\ c # d
        /\ task[c].first401 /\ task[c].pc = "login_post"
        /\ task[d].pc = "data" /\ task[d].headers # PyNone
        /\ token = PyNone /\ ~authenticated

AllEnded == \A c \in Callers : task[c].pc = "done"

AllProceeded == \A c \in Callers : task[c].result.kind = "ok"

\* the credential POSTs issued so far by the one call of each caller
LoginPosts ==
    Cardinality({c \in Callers :
        \/ task[c].pc = "login_post"
        \/ task[c].pc = "done" /\ task[c].ended = "login_post"})

FailedCalls ==
    Cardinality({c \in Callers :
        task[c].pc = "done" /\ task[c].result.kind # "ok"})

C3_OneLoginInFlight ==
    /\ \A c, d \in Callers : (InLogin(c) /\ InLogin(d)) => c = d
    /\ \A c \in Callers : InLogin(c) => login_lock.holder = c

\* a caller that got 401/403 waits for the lock while another one logs in
C3_Witness ==
    \E c, d \in Callers :
        /\ c # d
        /\ task[c].pc = "login_post"
        /\ task[d].pc = "wait_lock" /\ task[d].first401

\* C4 as stated: a call whose first attempt was answered 401/403 ends after
\* exactly one re-login of its own and exactly one retried data request.
C4_Original ==
    [][\A c \in Callers :
        (task[c].first401 /\ Ends(c)) =>
            (task[c].relogin = 1 /\ task[c].attempt = 2)]_vars

\* C4 amended: after a 401/403 on its first attempt the call starts at most
\* one login of its own, sends its one retried request as soon as the Session
\* is authenticated again, ends without a retried request only with the
\* failure of its own re-login, and a 401/403 on the retry ends it with
\* AuthError: after the retry there is no further login or data request.
C4_SingleRetry ==
    [][\A c \in Callers :
        /\ (~task[c].first401 /\ task'[c].first401) =>
                /\ task[c].pc = "data" /\ task[c].attempt = 1
                /\ task'[c].pc \in {"wait_lock", "types_get", "login_post", "data"}
        /\ task'[c].first401 =>
                /\ task'[c].relogin <= 1
                /\ task'[c].attempt <= 2
                /\ task'[c].pc = "data" => task'[c].attempt = 2
                /\ task'[c].pc \in {"types_get", "login_post"} =>
                        (task'[c].relogin = 1 /\ task'[c].attempt = 1)
        /\ (task[c].first401 /\ task[c].attempt = 1 /\ task'[c] # task[c]
            /\ authenticated') =>
                (task'[c].pc = "data" /\ task'[c].attempt = 2)
        /\ (task[c].first401 /\ task[c].attempt = 1 /\ Ends(c)) =>
                /\ task[c].pc \in {"types_get", "login_post"}
                /\ task'[c].result.kind \in LoginFailures
        /\ (task[c].pc = "data" /\ task[c].attempt = 2 /\ task'[c] # task[c]) =>
                task'[c].pc = "done"
        /\ (task[c].pc = "data" /\ task[c].attempt = 2
            /\ task[c].op.auth_required) =>
                \A st \in {401, 403} :
                    LET S2 == request_answered(
                                Cur, c, Response(st, PyNone, EmptyBody))
                    IN  /\ S2.task[c].pc = "done"
                        /\ S2.task[c].result.kind = "AuthError"
       ]_vars

\* a retried request is in flight after the caller's own re-login
C4_Witness ==
    \E c \in Callers :
        /\ task[c].pc = "data" /\ task[c].attempt = 2
        /\ task[c].first401 /\ task[c].relogin = 1

FacadeNames ==
    {"get_account", "get_zone", "list_reservations", "list_favorites",
     "create_reservation", "end_reservation", "create_favorite",
     "update_favorite", "delete_favorite"}

\* C5 as stated: every facade operation ends with a typed result or with one
\* of ParkingConnectionError, AuthError, RateLimitError, ParseError.
C5_Original ==
    \A c \in Callers :
        (task[c].pc = "done" /\ task[c].op.name \in FacadeNames) =>
            task[c].result.kind \in ({"ok"} \cup LibraryFailures)

\* C6 as stated: the token, the flag and the stored defaults change only in a
\* step of the caller that holds the login lock.
C6_Original ==
    [][(\/ token' # token
        \/ authenticated' # authenticated
        \/ default_type_id' # default_type_id
        \/ default_code' # default_code) =>
            \E c \in Callers : login_lock.holder = c /\ task'[c] # task[c]]_vars

\* C7: whatever the attempt and whether auth is required, a 429 answer to the
\* data request in flight ends the call with RateLimitError carrying the
\* integer of Retry-After (None when absent or no integer), sends nothing
\* more, and leaves token, flag and lock as they were.
C7_RateLimited ==
    \A c \in Callers :
        task[c].pc = "data" =>
            \A h \in RetryAfterHeaders :
                LET S2 == request_answered(Cur, c, Response(429, h, EmptyBody))
                IN  /\ S2.task[c].pc = "done"
                    /\ S2.task[c].result = RateLimitError(ExpectedRetryAfter(h))
                    /\ S2.token = token
                    /\ S2.authenticated = authenticated
                    /\ S2.login_lock = login_lock

\* an auth-required data request ended with RateLimitError(60); the Session
\* is still authenticated
C7_Witness ==
    \E c \in Callers :
        /\ task[c].pc = "done" /\ task[c].ended = "data"
        /\ task[c].op.auth_required
        /\ task[c].result = RateLimitError(PyInt(60))
        /\ authenticated /\ token # PyNone

\* the login body that is neither empty, invalid, a non-object, a failure
\* LoginStatus nor without a truthy Token
LoginBodyAccepted(body) ==
    /\ body.text = "json"
    /\ IsMapping(body.json)
    /\ DictGet(body.json, "LoginStatus") # PyInt(2)
    /\ DictGet(body.json, "Token") \notin {PyNone, PyStr(<<>>), PyInt(0)}

\* the token a login body of LoginBodies makes the Session store
ExpectedToken(body) ==
    IF DictGet(body.json, "Token") = PyInt(7) THEN PyStr(<<"7">>)
    ELSE DictGet(body.json, "Token")

\* C8: the outcome of the credential POST is a function of the response: 429
\* gives RateLimitError with the parsed Retry-After, any other status >= 400
\* or a body that is not accepted gives AuthError, both leaving the Session
\* unauthenticated; exactly otherwise the token is stored and the flag set.
C8_LoginOutcome ==
    \A c \in Callers :
        task[c].pc = "login_post" =>
            \A answer \in LoginAnswers \ {TransportError} :
                LET S2 == login_answered(Cur, c, answer)
                    failed(exc) ==
                        /\ S2.task[c].pc = "done"
                        /\ S2.task[c].result.kind = exc
                        /\ S2.token = PyNone /\ ~S2.authenticated
                IN  IF answer.status = 429
                    THEN /\ failed("RateLimitError")
                         /\ S2.task[c].result.val =
                                ExpectedRetryAfter(answer.retry_after)
                    ELSE IF answer.status >= 400 \/ ~LoginBodyAccepted(answer.body)
                    THEN failed("AuthError")
                    ELSE /\ S2.authenticated
                         /\ S2.token = ExpectedToken(answer.body)
                         /\ S2.task[c].result.kind \in {"ok", "none"}

\* a login stored the token of a body whose Token is the number 7
C8_Witness ==
    /\ authenticated /\ token = PyStr(<<"7">>)
    /\ \E c \in Callers : task[c].pc = "data" /\ task[c].attempt = 1

\* the GET /login answers whose first type entry carries a usable ID
TypesAccepted(answer) ==
    /\ answer.kind = "response"
    /\ answer.status < 400
    /\ answer.body.text = "json"
    /\ IsMapping(answer.body.json)
    /\ LET types == DictGet(answer.body.json, "PermitMediaTypes")
       IN  /\ IsList(types)
           /\ types.l # <<>>
           /\ \A i \in 1..Len(types.l) : IsMapping(types.l[i])
           /\ int(DictGet(types.l[1], "ID")).ok

FirstTypeId(answer) ==
    PyInt(int(DictGet(DictGet(answer.body.json, "PermitMediaTypes").l[1], "ID")).v)

\* C9: a credential POST in flight carries the (non-null) type id of the
\* Session; a types GET is in flight only while none is known, and its answer
\* either is accepted (the first entry's ID is adopted and the POST follows) or
\* ends the login with a failure, the type id still unknown and no POST sent;
\* a POST that starts with no type id known follows the types GET; a known
\* type id never changes and no GET /login is issued once it is known.
C9_TypeId ==
    /\ [](\A c \in Callers :
            /\ task[c].pc = "login_post" =>
                    /\ task[c].login_tid # PyNone
                    /\ task[c].login_tid = permit_media_type_id
            /\ task[c].pc = "types_get" =>
                    /\ permit_media_type_id = PyNone
                    /\ \A answer \in TypesAnswers :
                        LET S2 == types_answered(Cur, c, answer)
                        IN  IF TypesAccepted(answer)
                            THEN /\ S2.permit_media_type_id = FirstTypeId(answer)
                                 /\ S2.task[c].pc = "login_post"
                                 /\ S2.task[c].login_tid = FirstTypeId(answer)
                            ELSE /\ S2.permit_media_type_id = PyNone
                                 /\ S2.task[c].pc = "done"
                                 /\ S2.task[c].result.kind \in LoginFailures)
    /\ [][/\ \A c \in Callers :
                /\ (task'[c].pc = "types_get" /\ task[c].pc # "types_get") =>
                        permit_media_type_id = PyNone
                /\ (task'[c].pc = "login_post" /\ task[c].pc # "login_post"
                    /\ permit_media_type_id = PyNone) =>
                        task[c].pc = "types_get"
          /\ permit_media_type_id # PyNone =>
                permit_media_type_id' = permit_media_type_id]_vars

\* a re-login after 401/403 posts the adopted type id 2 without a new GET
C9_Witness ==
    \E c \in Callers :
        /\ task[c].first401 /\ task[c].pc = "login_post"
        /\ task[c].login_tid = PyInt(2)

MutationStages == {"create", "end", "remove", "upsert"}

\* a data answer whose body carries permit data with a first permit-media
CarriesPermit(answer) ==
    /\ answer.kind = "response"
    /\ answer.body.text = "json"
    /\ extract_permit_media(answer.body.json).ok

FirstMedia(answer) == extract_permit_media(answer.body.json).v.permit_media

\* C10 as stated: when a mutating operation ends successfully on a response
\* that carries permit data, the stored defaults are the TypeID and Code of
\* the first permit-media of that response.
C10_Original ==
    \A c \in Callers :
        (task[c].pc = "data" /\ task[c].stage \in MutationStages) =>
            \A answer \in DataAnswers, now \in Nows :
                LET S2 == facade_answered(Cur, c, answer, now)
                IN  (/\ S2.task[c].pc = "done"
                     /\ S2.task[c].result.kind = "ok"
                     /\ CarriesPermit(answer)) =>
                        /\ S2.default_type_id = DictGet(FirstMedia(answer), "TypeID")
                        /\ S2.default_code = DictGet(FirstMedia(answer), "Code")

\* ---------------------------------------------------------------- C11

\* the (type id, code) arguments of the resolution that precedes a stage
ArgsOf(t, stage) == StageArgs(t.op, stage)

ArgOmitted(t, stage) == ArgsOf(t, stage)[1] = PyNone \/ ArgsOf(t, stage)[2] = PyNone

\* the permit fetch of _ensure_media_defaults is issued in this step
DefaultsFetchStarts(c) ==
    task[c].stage # "defaults" /\ task'[c].stage = "defaults"

\* a mutation request is built and handed to request() in this step
MutationStarts(c) ==
    task'[c].stage \in MutationStages /\ task'[c].stage # task[c].stage

\* the payload carries the caller's value where one was given, the stored
\* default otherwise, and no null
PayloadResolved(S, c) ==
    LET t == S.task[c]
        args == ArgsOf(t, t.stage)
    IN  /\ t.payload.tid # PyNone
        /\ t.payload.code # PyNone
        /\ IF ArgOmitted(t, t.stage)
           THEN /\ t.payload.tid =
                        IF args[1] # PyNone THEN args[1] ELSE S.default_type_id
                /\ t.payload.code =
                        IF args[2] # PyNone THEN args[2] ELSE S.default_code
           ELSE t.payload.tid = args[1] /\ t.payload.code = args[2]

C11_Steps ==
    \A c \in Callers :
        /\ DefaultsFetchStarts(c) =>
                /\ ArgOmitted(task'[c], task'[c].then)
                /\ default_type_id = PyNone \/ default_code = PyNone
                /\ default_type_id' = PyNone \/ default_code' = PyNone
        /\ (task[c].stage = "defaults" /\ task'[c].stage # "defaults") =>
                \/ task'[c].pc = "done"
                \/ task'[c].stage = task[c].then
        /\ MutationStarts(c) =>
                /\ PayloadResolved(Cur', c)
                /\ task[c].stage = "defaults" \/
                        \/ ~ArgOmitted(task'[c], task'[c].stage)
                        \/ default_type_id' # PyNone /\ default_code' # PyNone

C11_Answered ==
    \A c \in Callers :
        (task[c].pc = "data" /\ task[c].stage = "defaults") =>
            \A answer \in DataAnswers, now \in Nows :
                LET S2 == facade_answered(Cur, c, answer, now)
                IN  \/ /\ S2.task[c].stage = "defaults"
                       /\ S2.task[c].pc \in {"data", "wait_lock", "types_get",
                                             "login_post"}
                       /\ answer.kind = "response" /\ answer.status = 401
                    \/ /\ S2.task[c].pc = "done"
                       /\ S2.task[c].result.kind # "ok"
                       /\ (answer.kind = "response" /\ answer.status = 200) =>
                                S2.task[c].result.kind = "ParseError"
                    \/ /\ S2.task[c].stage = task[c].then
                       /\ S2.task[c].stage \in MutationStages
                       /\ answer.kind = "response" /\ answer.status = 200
                       /\ PayloadResolved(S2, c)

DefaultsStored == default_type_id # PyNone /\ default_code # PyNone

\* caller c starts a mutating operation without (type id, code)
MutationCalled(c) ==
    /\ task[c].pc = "idle" /\ task'[c].pc # "idle"
    /\ task'[c].op.name \in {"create_reservation", "end_reservation",
                             "create_favorite", "delete_favorite"}
    /\ task'[c].op.tid = PyNone /\ task'[c].op.code = PyNone

\* C12: once both stored defaults are non-null every step leaves them
\* non-null, whatever the step is (an operation failing, invalidate(), a new
\* login); no step then issues the permit fetch of _ensure_media_defaults, and
\* a mutating operation called without (type id, code) goes straight to its
\* mutation request.
C12_DefaultsStay ==
    [][DefaultsStored =>
            /\ default_type_id' # PyNone /\ default_code' # PyNone
            /\ \A c \in Callers :
                    /\ ~DefaultsFetchStarts(c)
                    /\ MutationCalled(c) =>
                            /\ task'[c].stage \in MutationStages
                            /\ task'[c].then = "none"
                            /\ task'[c].payload.tid = default_type_id
                            /\ task'[c].payload.code = default_code]_vars

\* the defaults are stored, the session was invalidated since, and a
\* create_reservation without (type id, code) is logging in for its request
C12_Witness ==
    /\ default_type_id # PyNone /\ default_code # PyNone
    /\ token = PyNone /\ ~authenticated
    /\ task[1].op.name = "create_reservation"
    /\ task[1].op.tid = PyNone /\ task[1].op.code = PyNone
    /\ task[1].stage = "create" /\ task[1].then = "none"
    /\ task[1].pc = "login_post"

\* ---------------------------------------------------------------- C13

\* the answer is a response the operation decodes
Good(answer) == answer.kind = "response" /\ answer.status = 200

\* the LicensePlates list of the first permit-media of an answer
FetchedPlates(answer) == DictGet(FirstMedia(answer), "LicensePlates")

\* the positions of the fetched favorites that have the plate
PlateHits(answer, plate) ==
    IF ~CarriesPermit(answer) \/ ~IsList(FetchedPlates(answer)) THEN {}
    ELSE {i \in 1..Len(FetchedPlates(answer).l) :
            /\ IsMapping(FetchedPlates(answer).l[i])
            /\ DictGet(FetchedPlates(answer).l[i], "Value") = plate}

FirstHitName(answer, plate) ==
    DictGet(FetchedPlates(answer).l[CHOOSE i \in PlateHits(answer, plate) :
                \A j \in PlateHits(answer, plate) : i <= j], "Name")

\* C13: update_favorite(name, plate) goes from its permit fetch to the remove
\* request exactly when the fetched favorites have an entry with the plate,
\* and the remove request carries the name of the first such entry; otherwise
\* it goes to the upsert request.  The upsert request is issued once, after a
\* remove that was answered and accepted or after a fetch without such an
\* entry, and carries the new name; a failed fetch or remove ends the
\* operation with no further request.  Only the answered upsert returns, and
\* it returns Favorite(plate, new name).
C13_UpdateFavorite ==
    \A c \in Callers :
        (task[c].op.name = "update_favorite" /\ task[c].pc = "data") =>
            \A answer \in DataAnswers, now \in Nows :
                LET op == task[c].op
                    t2 == facade_answered(Cur, c, answer, now).task[c]
                    Failed == t2.pc = "done" /\ t2.result.kind \notin {"ok", "none"}
                    Retried == /\ t2.stage = task[c].stage /\ t2.pc # "done"
                               /\ answer.kind = "response" /\ answer.status = 401
                               /\ task[c].attempt = 1
                IN  CASE task[c].stage = "getbase" ->
                            \/ Failed
                            \/ Retried
                            \/ /\ t2.stage = "remove" /\ t2.pc # "done"
                               /\ Good(answer)
                               /\ PlateHits(answer, op.plate) # {}
                               /\ t2.payload.name = FirstHitName(answer, op.plate)
                            \/ /\ t2.stage = "upsert" /\ t2.pc # "done"
                               /\ Good(answer)
                               /\ PlateHits(answer, op.plate) = {}
                               /\ t2.payload.name = op.fname
                      [] task[c].stage = "remove" ->
                            \/ Failed
                            \/ Retried
                            \/ /\ t2.stage = "upsert" /\ t2.pc # "done"
                               /\ Good(answer)
                               /\ t2.payload.name = op.fname
                      [] task[c].stage = "upsert" ->
                            \/ Failed
                            \/ Retried
                            \/ /\ t2.pc = "done" /\ Good(answer)
                               /\ t2.result = Returned(Favorite(op.plate, op.fname))
                      [] OTHER -> FALSE

\* update_favorite found the plate under the old name, its remove was
\* answered, and its upsert request with the new name is in flight
C13_Witness ==
    /\ task[1].op.name = "update_favorite" /\ task[1].op.plate = PlateAA
    /\ task[1].stage = "upsert" /\ task[1].pc = "data"
    /\ task[1].existing_name = NameOld
    /\ task[1].payload.name = NameNew

\* ---------------------------------------------------------------- C14

\* the reservations of the first permit-media of an answer, parsed
ParsedReservations(answer) ==
    ParseItems(DictGet(FirstMedia(answer), "ActiveReservations"), "reservation")

\* a requested date as the client string of its UTC-normalized value
RequestedTime(dt) == PyStr(isoformat_utc(normalize_date(dt).v))

\* the entries that match the request: the plate, and each date the caller
\* supplied
RequestedHits(rs, op) ==
    {i \in 1..Len(rs) :
        /\ rs[i].d.license_plate = op.plate
        /\ op.date_from # PyNone => rs[i].d.start_time = RequestedTime(op.date_from)
        /\ op.date_until # PyNone => rs[i].d.end_time = RequestedTime(op.date_until)}

RequestedPick(rs, op) ==
    IF RequestedHits(rs, op) = {} THEN rs[1]
    ELSE rs[CHOOSE i \in RequestedHits(rs, op) :
                \A j \in RequestedHits(rs, op) : i <= j]

\* C14 as stated: create_reservation returns the first active reservation of
\* the response that has the requested plate and the requested dates, a date
\* the caller omitted imposing no constraint; the first entry when none
\* matches; ParseError when the collection is empty.
C14_Original ==
    \A c \in Callers :
        (task[c].pc = "data" /\ task[c].stage = "create") =>
            \A answer \in DataAnswers, now \in Nows :
                LET t2 == facade_answered(Cur, c, answer, now).task[c]
                IN  (/\ Good(answer) /\ CarriesPermit(answer)
                     /\ ParsedReservations(answer).ok
                     /\ t2.pc = "done") =>
                        IF ParsedReservations(answer).v.l = <<>>
                        THEN t2.result.kind = "ParseError"
                        ELSE t2.result = Returned(RequestedPick(
                                ParsedReservations(answer).v.l, task[c].op))

\* ---------------------------------------------------------------- C15

\* the first permit-media of an answer has what an Account is built from
AccountFields(answer) ==
    /\ Good(answer) /\ CarriesPermit(answer)
    /\ int(DictGet(FirstMedia(answer), "Code")).ok
    /\ int(DictGet(FirstMedia(answer), "Balance")).ok
    /\ \/ DictGet(FirstMedia(answer), "ActiveReservations") = PyNone
       \/ IsList(DictGet(FirstMedia(answer), "ActiveReservations"))

ExpectedAccount(pm) ==
    PyDict([id |-> PyInt(int(DictGet(pm, "Code")).v),
            remaining_time |-> PyInt(int(DictGet(pm, "Balance")).v),
            active_reservation_count |->
                PyInt(IF DictGet(pm, "ActiveReservations") = PyNone THEN 0
                      ELSE Len(DictGet(pm, "ActiveReservations").l))])

\* C15 as stated: for every permit response with a non-empty permit-media
\* list whose first entry has a Code and a Balance that int() accepts,
\* get_account returns id = int(Code), remaining_time = int(Balance) and
\* active_reservation_count = len(ActiveReservations), 0 when absent, whatever
\* the other fields are, TypeID present or not.
C15_Original ==
    \A c \in Callers :
        (/\ task[c].op.name = "get_account"
         /\ task[c].pc = "data" /\ task[c].stage = "getbase") =>
            \A answer \in DataAnswers, now \in Nows :
                AccountFields(answer) =>
                    facade_answered(Cur, c, answer, now).task[c].result =
                        Returned(ExpectedAccount(FirstMedia(answer)))

\* ---------------------------------------------------------------- C16

FetchedPermit(answer) == extract_permit_media(answer.body.json).v.permit

\* the first permit-media of an answer has what _update_defaults stores
StoresDefaults(answer) ==
    /\ Good(answer) /\ CarriesPermit(answer)
    /\ HasKey(FirstMedia(answer), "TypeID")
    /\ int(DictGet(FirstMedia(answer), "TypeID")).ok
    /\ IsStr(DictGet(FirstMedia(answer), "Code"))

BlockFree(e) == DictGet(e, "IsFree") = PyBool(TRUE)
BlockStart(e) == parse_dt_value(DictGet(e, "ValidFrom"))
BlockEnd(e) == parse_dt_value(DictGet(e, "ValidUntil"))

\* a permit with a zone code and block times that all can be read
ZoneReadable(answer) ==
    /\ StoresDefaults(answer)
    /\ IsStr(DictGet(FetchedPermit(answer), "ZoneCode"))
    /\ IsList(DictGet(FetchedPermit(answer), "BlockTimes"))
    /\ \A i \in 1..Len(DictGet(FetchedPermit(answer), "BlockTimes").l) :
            LET e == DictGet(FetchedPermit(answer), "BlockTimes").l[i]
            IN  /\ IsMapping(e)
                /\ ~BlockFree(e) => BlockStart(e).ok /\ BlockEnd(e).ok

\* the entries that are not free and start on the current day, the day taken
\* at the entry's own offset
PaidToday(blocks, now) ==
    {i \in 1..Len(blocks) :
        /\ ~BlockFree(blocks[i])
        /\ BlockStart(blocks[i]).v.day = Today(now, BlockStart(blocks[i]).v.off.n)}

ZoneOf(permit, e) ==
    PyDict([id |-> DictGet(permit, "ZoneCode"),
            start_time |-> dt_to_client(BlockStart(e).v).v,
            end_time |-> dt_to_client(BlockEnd(e).v).v])

\* C16: for a permit whose zone code and block times can be read, get_zone
\* returns None when no entry is both not free and dated on the current day at
\* its own offset (so for an empty list, and when every entry is free);
\* otherwise it returns the zone code with the UTC-normalized start and end of
\* such an entry with the earliest start.
C16_Zone ==
    \A c \in Callers :
        (/\ task[c].op.name = "get_zone"
         /\ task[c].pc = "data" /\ task[c].stage = "getbase") =>
            \A answer \in ParseAnswers, now \in Nows :
                ZoneReadable(answer) =>
                    LET res == facade_answered(Cur, c, answer, now).task[c].result
                        permit == FetchedPermit(answer)
                        blocks == DictGet(permit, "BlockTimes").l
                        paid == PaidToday(blocks, now)
                    IN  /\ res.kind = "ok"
                        /\ paid = {} => res.val = PyNone
                        /\ paid # {} =>
                            \E i \in paid :
                                /\ \A j \in paid :
                                     ~KeyLess(UtcKey(BlockStart(blocks[j]).v),
                                              UtcKey(BlockStart(blocks[i]).v))
                                /\ res.val = ZoneOf(permit, blocks[i])

\* get_zone returned the block dated the 22nd at -09:00, which is the current
\* day there, with its start as 08:30 UTC of the 23rd
C16_Witness ==
    /\ task[1].op.name = "get_zone" /\ task[1].pc = "done"
    /\ task[1].result.kind = "ok"
    /\ task[1].result.val # PyNone
    /\ task[1].result.val.d.start_time.s =
            Chars2025_12_23 \o <<"T", "0", "8", ":", "3", "0", ":", "0", "0",
                                 "+", "0", "0", ":", "0", "0">>

\* ---------------------------------------------------------------- C17

\* the permit a response designates: the singular key when present, else the
\* first element of the plural key
DesignatedPermit(data) ==
    IF HasKey(data, "Permit") THEN data.d.Permit
    ELSE IF HasKey(data, "Permits") /\ IsList(data.d.Permits)
            /\ data.d.Permits.l # <<>>
    THEN data.d.Permits.l[1]
    ELSE PyNone

\* a response with a permit object whose permit-media list has a first object
Resolvable(data) ==
    /\ IsMapping(data)
    /\ IsMapping(DesignatedPermit(data))
    /\ IsList(DictGet(DesignatedPermit(data), "PermitMedias"))
    /\ DictGet(DesignatedPermit(data), "PermitMedias").l # <<>>
    /\ IsMapping(DictGet(DesignatedPermit(data), "PermitMedias").l[1])

Singular(permit) == Response(200, PyNone, JsonBody(PyDict([Permit |-> permit])))

\* C17: _extract_permit_media gives the permit under the singular key, or the
\* first element of the plural key when there is no singular key, with the
\* first element of its permit-media list; an operation answered with the
\* permit under the plural key ends as it does with the same permit under the
\* singular key.  A response that is no object, has neither key, an empty or
\* non-list plural key, a permit that is no object, a permit-media list that
\* is missing, no list or empty, or a first permit-media that is no object
\* gives ParseError and no value, and the operation ends with ParseError
\* leaving the stored defaults as they were.
C17_Extract ==
    \A c \in Callers :
        (task[c].pc = "data" /\ task[c].stage \in {"getbase", "create"}) =>
            \A answer \in ParseAnswers, now \in Nows :
                (Good(answer) /\ answer.body.text # "invalid") =>
                    LET data == async_json(answer.body).v
                        r == extract_permit_media(data)
                        S2 == facade_answered(Cur, c, answer, now)
                    IN  /\ Resolvable(data) =>
                                r = Ok([permit |-> DesignatedPermit(data),
                                        permit_media |->
                                            DictGet(DesignatedPermit(data),
                                                    "PermitMedias").l[1]])
                        /\ (Resolvable(data) /\ ~HasKey(data, "Permit")) =>
                                /\ r = extract_permit_media(
                                        PyDict([Permit |-> data.d.Permits.l[1]]))
                                /\ S2 = facade_answered(
                                        Cur, c, Singular(data.d.Permits.l[1]), now)
                        /\ ~Resolvable(data) =>
                                /\ r = Raise(ParseError("no permit data"))
                                /\ S2.task[c].pc = "done"
                                /\ S2.task[c].result.kind = "ParseError"
                                /\ S2.default_type_id = default_type_id
                                /\ S2.default_code = default_code

\* get_account was answered with both keys and returned the account of the
\* permit under the singular key
C17_Witness ==
    /\ task[1].op.name = "get_account" /\ task[1].pc = "done"
    /\ task[1].result = Returned(PyDict([id |-> PyInt(7),
                                         remaining_time |-> PyInt(69),
                                         active_reservation_count |-> PyInt(1)]))
    /\ default_type_id = PyInt(3)

\* ---------------------------------------------------------------- C18

\* the outcome of operation `name` had it been the one answered
ResultAs(c, name, answer, now) ==
    facade_answered([Cur EXCEPT !.task[c].op.name = name], c, answer, now)
        .task[c].result

\* a present value that is no JSON array
NonArray(v) == v # PyNone /\ ~IsList(v)

\* C18 as stated: a field of another JSON type than expected ends the
\* operation with ParseError: a boolean Balance is not taken as an integer by
\* get_account, a non-array ActiveReservations or LicensePlates is not taken
\* as an empty collection by list_reservations or list_favorites, and
\* get_account and list_reservations accept the same ActiveReservations
\* values.
C18_Original ==
    \A c \in Callers :
        (/\ task[c].op.name \in {"get_account", "list_reservations", "list_favorites"}
         /\ task[c].pc = "data" /\ task[c].stage = "getbase") =>
            \A answer \in ParseAnswers, now \in Nows :
                StoresDefaults(answer) =>
                    LET pm == FirstMedia(answer) IN
                    /\ DictGet(pm, "Balance").t = "bool" =>
                            ResultAs(c, "get_account", answer, now).kind = "ParseError"
                    /\ NonArray(DictGet(pm, "ActiveReservations")) =>
                            /\ ResultAs(c, "list_reservations", answer, now).kind
                                    = "ParseError"
                            /\ ResultAs(c, "get_account", answer, now).kind
                                    = "ParseError"
                    /\ NonArray(DictGet(pm, "LicensePlates")) =>
                            ResultAs(c, "list_favorites", answer, now).kind
                                    = "ParseError"
                    /\ (\/ DictGet(pm, "ActiveReservations") = PyNone
                        \/ DictGet(pm, "ActiveReservations") = PyList(<<>>)
                        \/ NonArray(DictGet(pm, "ActiveReservations"))) =>
                            (ResultAs(c, "get_account", answer, now).kind = "ok"
                                <=> ResultAs(c, "list_reservations", answer, now).kind
                                        = "ok")

\* ---------------------------------------------------------------- C19

\* the state after the network call caller c waits for fails in the transport
AfterTransportError(c) ==
    CASE task[c].pc = "types_get" -> types_answered(Cur, c, TransportError)
      [] task[c].pc = "login_post" -> login_answered(Cur, c, TransportError)
      [] task[c].pc = "data" ->
            request_returned(request_answered(Cur, c, TransportError),
                             c, TransportError)
      [] OTHER -> Cur

\* C19: when the network call a caller waits for (the types GET, the
\* credential POST, the data request at its first or second attempt) fails in
\* the transport, the call ends there with ParkingConnectionError, nothing is
\* sent again, and the step leaves token and authenticated flag as they are.
C19_TransportFailure ==
    \A c \in Callers :
        task[c].pc \in {"types_get", "login_post", "data"} =>
            LET S2 == AfterTransportError(c)
            IN  /\ S2.task[c].pc = "done"
                /\ S2.task[c].result.kind = "ParkingConnectionError"
                /\ S2.task[c].ended = task[c].pc
                /\ S2.token = token
                /\ S2.authenticated = authenticated
                /\ \A d \in Callers \ {c} : S2.task[d] = task[d]

\* a data request failed in the transport and the session is still logged in
C19_Witness ==
    \E c \in Callers :
        /\ task[c].pc = "done" /\ task[c].ended = "data"
        /\ task[c].result.kind = "ParkingConnectionError"
        /\ task[c].op.auth_required
        /\ authenticated /\ token # PyNone

\* ---------------------------------------------------------------- C20

AuthRequest == [NoOp EXCEPT !.name = "request", !.auth_required = TRUE]

\* invalidate() in the current state: the session is unauthenticated, a second
\* invalidate() changes nothing more, everything but token and flag is as it
\* was, and an auth-required request() called next does not send: it starts
\* the login, or queues for the lock while another caller holds it
C20_Invalidated ==
    LET S1 == invalidate_session(Cur)
    IN  /\ S1.token = PyNone /\ ~S1.authenticated
        /\ invalidate_session(S1) = S1
        /\ S1 = [Cur EXCEPT !.token = PyNone, !.authenticated = FALSE]
        /\ S1.permit_media_type_id = permit_media_type_id
        /\ S1.default_type_id = default_type_id
        /\ S1.default_code = default_code
        /\ \A c \in Callers, now \in Nows :
                task[c].pc = "idle" =>
                    LET t2 == start_op(S1, c, AuthRequest, now).task[c]
                    IN  /\ t2.attempt = 0
                        /\ IF LockFree(S1)
                           THEN t2.pc = IF permit_media_type_id = PyNone
                                        THEN "types_get" ELSE "login_post"
                           ELSE t2.pc = "wait_lock"

\* a step that sends the data call of an auth-required request
SendsAuthRequest(c) ==
    /\ task'[c].pc = "data" /\ task'[c].op.auth_required
    /\ task'[c].attempt # task[c].attempt \/ task[c].pc # "data"

\* C20: invalidate() leaves the session unauthenticated (token None, flag
\* False) from any state, is idempotent and changes neither the permit-media
\* type id nor the stored defaults; the auth-required request called next
\* goes through the login, and the data call of an auth-required request is
\* only ever sent by a step that leaves the session authenticated, with the
\* token of that moment in its Authorization header.
C20_Invalidate ==
    /\ []C20_Invalidated
    /\ [][\A c \in Callers :
            SendsAuthRequest(c) =>
                /\ authenticated' /\ token' # PyNone
                /\ task'[c].headers = build_authorization_header(Cur').v]_vars

\* the session was invalidated while caller 2 has a request in flight that
\* was sent with a token, and the request caller 1 called next is logging in
C20_Witness ==
    /\ token = PyNone /\ ~authenticated
    /\ task[2].pc = "data" /\ task[2].headers # PyNone /\ task[2].attempt = 1
    /\ task[1].op = AuthRequest /\ task[1].pc = "login_post"
    /\ task[1].attempt = 0 /\ ~task[1].first401

\* ---------------------------------------------------------------- C21

\* an answer whose body reaches async_json and is not JSON
Undecodable(answer) ==
    /\ answer.kind = "response" /\ answer.status < 400
    /\ answer.body = InvalidBody

UndecodableAnswers ==
    {Response(st, PyNone, InvalidBody) : st \in {s \in Statuses : s < 400}}

\* the result of the call of caller c had the network call it waits for been
\* answered by `answer`
ResultOn(c, answer, now) ==
    CASE task[c].pc = "types_get" -> types_answered(Cur, c, answer).task[c].result
      [] task[c].pc = "login_post" -> login_answered(Cur, c, answer).task[c].result
      [] task[c].pc = "data" -> facade_answered(Cur, c, answer, now).task[c].result
      [] OTHER -> NoResult

\* C21 as stated: whichever network call a caller waits for, a body that is
\* not empty and not JSON ends the call with ParseError.
C21_Original ==
    \A c \in Callers :
        task[c].pc \in {"types_get", "login_post", "data"} =>
            \A answer \in UndecodableAnswers, now \in Nows :
                ResultOn(c, answer, now).kind = "ParseError"

\* C21: async_json gives None for an empty body and the parsed value for a
\* JSON body, without raising; for a body that is not empty and not JSON it
\* raises what its caller passes as on_error: every facade operation, at every
\* wire call it makes, ends with ParseError and leaves the session and the
\* stored defaults as they are (so get_account on a 200 response), while the
\* types GET and the credential POST of a login end with AuthError.
C21_Decoder ==
    /\ decode(Response(200, PyNone, EmptyBody)) = Ok(PyNone)
    /\ \A b \in DataBodies :
            b.text = "json" => decode(Response(200, PyNone, b)) = Ok(b.json)
    /\ \A c \in Callers :
        task[c].pc \in {"types_get", "login_post", "data"} =>
            \A answer \in UndecodableAnswers, now \in Nows :
                /\ Undecodable(answer)
                /\ ResultOn(c, answer, now).kind =
                        IF task[c].pc = "data" THEN "ParseError" ELSE "AuthError"
                /\ task[c].pc = "data" =>
                        facade_answered(Cur, c, answer, now) =
                            Done([Cur EXCEPT !.task[c].pc = "responded"], c,
                                 ParseError("Response body is not valid JSON"))

\* get_account ended on the response to its data request with ParseError
\* while the other caller waits for the answer to its credential POST
C21_Witness ==
    /\ task[1].pc = "done" /\ task[1].op.name = "get_account"
    /\ task[1].ended = "responded" /\ task[1].result.kind = "ParseError"
    /\ task[2].pc = "login_post"

\* ---------------------------------------------------------------- C22

UtcSuffix == <<"+", "0", "0", ":", "0", "0">>

\* `text` is the exposed form of the wire timestamp `raw`: 19 characters of
\* date and time followed by +00:00, denoting the instant of `raw` (taken as
\* UTC when it has no offset) without its fraction of a second, and
\* normalizing it again gives the same text
Exposes(text, raw) ==
    LET out == fromisoformat(text.s)
        in == parse_dt_value(raw)
    IN  /\ IsStr(text) /\ Len(text.s) = 25
        /\ SubSeq(text.s, 20, 25) = UtcSuffix
        /\ out.ok /\ out.v.off = PyInt(0) /\ out.v.us = 0
        /\ in.ok
        /\ <<out.v.day, out.v.sec>> = <<UtcKey(in.v)[1], UtcKey(in.v)[2]>>
        /\ (fromisoformat(ReplaceZ(raw.s)).v.off = PyNone /\ Len(raw.s) >= 19) =>
                text.s = SubSeq(raw.s, 1, 10) \o <<"T">> \o SubSeq(raw.s, 12, 19)
                            \o UtcSuffix
        /\ normalize_dt(out.v) = [ok |-> TRUE, v |-> out.v]
        /\ dt_to_client(out.v) = [ok |-> TRUE, v |-> text]
        /\ client_time(text) = Ok(text)

\* a reservation entity exposes the timestamps of the wire item
ExposesReservation(entity, item) ==
    /\ Exposes(entity.d.start_time, DictGet(item, "ValidFrom"))
    /\ Exposes(entity.d.end_time, DictGet(item, "ValidUntil"))

\* wire timestamps with what _dt_to_client(_parse_dt(...)) gives for them
StampTable ==
    LET Dec == <<"2", "0", "2", "5", "-", "1", "2", "-">>
        Out(day, hhmm) == day \o <<"T">> \o hhmm \o <<":", "0", "0">> \o UtcSuffix
    IN  {<<T0047, Out(Chars2025_12_23, <<"0", "0", ":", "4", "7">>)>>,
         <<T0047 \o <<".", "9", "9", "9", "9", "9", "9">>,
           Out(Chars2025_12_23, <<"0", "0", ":", "4", "7">>)>>,
         <<T2359 \o <<"Z">>, Out(Chars2025_12_23, <<"2", "3", ":", "5", "9">>)>>,
         <<T0900p1, Out(Chars2025_12_23, <<"0", "8", ":", "0", "0">>)>>,
         <<Dec \o <<"2", "4">>,
           Out(Dec \o <<"2", "4">>, <<"0", "0", ":", "0", "0">>)>>,
         <<Dec \o <<"3", "1", "T", "2", "3", ":", "3", "0", ":", "0", "0",
                     ".", "2", "5", "-", "0", "1", ":", "0", "0">>,
           Out(<<"2", "0", "2", "6", "-", "0", "1", "-", "0", "1">>,
               <<"0", "0", ":", "3", "0">>)>>}

\* the wire items of the answer a result was built from
WireReservations(answer) == DictGet(FirstMedia(answer), "ActiveReservations").l
WireBlocks(answer) == DictGet(FetchedPermit(answer), "BlockTimes").l

\* C22: every start_time and end_time exposed by list_reservations,
\* create_reservation and get_zone is a text with offset +00:00 and no
\* fraction of a second that denotes the instant of the wire timestamp cut to
\* the second, a wire timestamp without offset being taken as UTC (so
\* 2025-12-23T00:47:00 is exposed as 2025-12-23T00:47:00+00:00); normalizing
\* an exposed timestamp again gives it unchanged.
C22_Timestamps ==
    /\ \A p \in StampTable : client_time(PyStr(p[1])) = Ok(PyStr(p[2]))
    /\ \A c \in Callers :
        (/\ task[c].pc = "data"
         /\ task[c].op.name \in {"list_reservations", "create_reservation", "get_zone"}) =>
            \A answer \in ParseAnswers, now \in Nows :
                LET res == facade_answered(Cur, c, answer, now).task[c].result
                IN  (res.kind = "ok" /\ res.val # PyNone) =>
                    CASE task[c].op.name = "list_reservations" ->
                            /\ Len(res.val.l) = Len(WireReservations(answer))
                            /\ \A i \in 1..Len(res.val.l) :
                                    ExposesReservation(res.val.l[i],
                                                       WireReservations(answer)[i])
                      [] task[c].op.name = "create_reservation" ->
                            \E i \in 1..Len(WireReservations(answer)) :
                                ExposesReservation(res.val, WireReservations(answer)[i])
                      [] task[c].op.name = "get_zone" ->
                            \E i \in 1..Len(WireBlocks(answer)) :
                                /\ Exposes(res.val.d.start_time,
                                           DictGet(WireBlocks(answer)[i], "ValidFrom"))
                                /\ Exposes(res.val.d.end_time,
                                           DictGet(WireBlocks(answer)[i], "ValidUntil"))

\* list_reservations exposed 2025-12-23T09:00:00.5+01:00 as 08:00:00 UTC
C22_Witness ==
    /\ task[1].pc = "done" /\ task[1].op.name = "list_reservations"
    /\ task[1].result.kind = "ok"
    /\ Len(task[1].result.val.l) = 1
    /\ task[1].result.val.l[1].d.start_time.s =
            Chars2025_12_23 \o <<"T", "0", "8", ":", "0", "0", ":", "0", "0">>
                \o UtcSuffix
    /\ task[1].result.val.l[1].d.end_time.s =
            Chars2025_12_23 \o <<"T", "1", "7", ":", "0", "0", ":", "0", "0">>
                \o UtcSuffix

\* ---------------------------------------------------------------- C23

Blank(s) == s = <<>> \/ \A i \in 1..Len(s) : s[i] = " "

\* C23 as stated: Auth(...) raises, and the object in use stays as it is,
\* when the username, the password or the base URL is empty or blank or the
\* timeout is <= 0; every object it makes has a base URL that is not empty
\* and does not end in a slash, no token and the flag False.
C23_Original ==
    /\ config.base_url # <<>>
    /\ config.base_url[Len(config.base_url)] # "/"
    /\ \A a \in InitArgs :
            LET r == Auth_init(a[1], a[2], a[3], a[4])
                S2 == construct(Cur, 1, r)
            IN  /\ (\/ Blank(a[1]) \/ Blank(a[2]) \/ Blank(a[3])
                    \/ (a[4].timeout # PyNone /\ a[4].timeout.n <= 0)) =>
                        /\ ~r.ok
                        /\ S2.task[1].result.kind = "ValueError"
                            \/ S2.task[1].result.kind = "TypeError"
                        /\ [S2 EXCEPT !.task = task] = Cur
                /\ r.ok =>
                        /\ S2.config.base_url # <<>>
                        /\ S2.config.base_url[Len(S2.config.base_url)] # "/"
                        /\ S2.token = PyNone /\ ~S2.authenticated

\* ---------------------------------------------------------------- C24

\* the callers whose data request is in flight
InFlight == {c \in Callers : task[c].pc = "data"}

\* C24: a caller whose data request is in flight neither holds the login lock
\* nor waits for it -- the lock is held only by a caller inside the login --
\* and on an authenticated session a request() called while other data
\* requests are in flight is sent in the same step, without touching the lock.
C24_NotSerialized ==
    /\ \A c \in InFlight :
            /\ login_lock.holder # c
            /\ \A i \in 1..Len(login_lock.waiters) : login_lock.waiters[i] # c
    /\ login_lock.holder # NoCaller => InLogin(login_lock.holder)
    /\ \A c \in Callers, now \in Nows :
            (task[c].pc = "idle" /\ authenticated) =>
                LET S2 == start_op(Cur, c, AuthRequest, now)
                IN  /\ S2.task[c].pc = "data"
                    /\ S2.login_lock = login_lock
                    /\ \A d \in InFlight : S2.task[d] = task[d]

\* the auth-required data requests of both callers are in flight at once on
\* the authenticated session, and the lock is free
C24_Witness ==
    /\ InFlight = Callers
    /\ \A c \in Callers : task[c].op = AuthRequest /\ task[c].headers # PyNone
    /\ authenticated /\ LockFree(Cur)

\* ---------------------------------------------------------------- C25

\* the login of caller d failed: its call ended at a login network call with
\* one of the three failures
LoginFailed(d) ==
    /\ task[d].pc = "done"
    /\ task[d].ended \in {"types_get", "login_post"}
    /\ task[d].result.kind \in LoginFailures

\* C25 as stated: of the concurrent _ensure_logged_in calls on the fresh
\* session, once the login of one caller has failed no other caller has a
\* login network call (types GET or credential POST) of its own in flight.
C25_Original ==
    \A c \in Callers : \A d \in Callers \ {c} : LoginFailed(d) => ~InLogin(c)

\* ---------------------------------------------------------------- C26

\* a step in which caller c starts a _login() of its own
LoginStarts(c) == ~InLogin(c) /\ task'[c].pc \in {"types_get", "login_post"}

\* caller c is inside a request() call
InRequest(c) ==
    task[c].op.name = "request" /\ task[c].pc \notin {"idle", "done"}

\* the steps of a request() call: it starts a login of its own only before
\* its first attempt (from its start, or from the lock queue it entered at
\* its start) and once after the 401/403 answer to its first attempt; a login
\* ends the call or leads to the next attempt; there is no third attempt
C26_Steps ==
    \A c \in Callers :
        /\ task'[c].attempt <= 2
        /\ task'[c].attempt # task[c].attempt =>
                \/ task'[c].attempt = task[c].attempt + 1 /\ task'[c].pc = "data"
                \/ task'[c].attempt = 0
        /\ LoginStarts(c) =>
                \/ /\ task[c].attempt = 0 /\ task'[c].attempt = 0
                   /\ task[c].pc \in {"idle", "wait_lock"}
                   /\ ~task'[c].first401 /\ task'[c].relogin = 0
                \/ /\ task[c].attempt = 1 /\ task'[c].attempt = 1
                   /\ task[c].pc \in {"data", "wait_lock"}
                   /\ task'[c].first401
                   /\ task[c].relogin = 0 /\ task'[c].relogin = 1
        /\ (task[c].pc # "wait_lock" /\ task'[c].pc = "wait_lock") =>
                \/ task[c].pc = "idle" /\ task'[c].attempt = 0
                \/ /\ task[c].pc = "data" /\ task[c].attempt = 1
                   /\ task'[c].attempt = 1 /\ task'[c].first401
                   /\ task'[c].relogin = 0
        /\ (InLogin(c) /\ ~InLogin(c)') =>
                \/ task'[c].pc = "done"
                \/ task'[c].pc = "data" /\ task'[c].attempt = task[c].attempt + 1

\* C26: a request() call sends at most two data transport calls and starts at
\* most two logins of its own, one before the first attempt and one before
\* the retry, whatever the answers and the other callers do; and when every
\* awaited network call is answered and the lock is handed to the first
\* waiter, every request() call ends: it returns the response or raises.
C26_Bounded ==
    /\ [][C26_Steps]_vars
    /\ \A c \in Callers : InRequest(c) ~> (task[c].pc = "done")

\* caller 1 is in the login it started after the 401/403 answer to its first
\* attempt while caller 2, which was answered 401/403 too, waits for the lock
C26_Witness ==
    /\ task[1].op = AuthRequest /\ task[1].pc = "login_post"
    /\ task[1].attempt = 1 /\ task[1].relogin = 1
    /\ task[2].op = AuthRequest /\ task[2].pc = "wait_lock"
    /\ task[2].attempt = 1 /\ task[2].first401

\* ---------------------------------------------------------------- C27

\* 2xx answers without permit data: an empty body, a JSON object with
\* neither Permit nor Permits
NoPermitAnswers ==
    {Response(200, PyNone, EmptyBody), Response(200, PyNone, JsonBody(EmptyDict))}

\* C27 as stated: when the request of end_reservation (delete_reservation is
\* the same call with the media arguments omitted), of delete_favorite, of
\* create_favorite or of either step of update_favorite is answered 2xx with
\* an empty body or an object without permit data, the operation goes on
\* without a failure -- it ends returning its value, or update_favorite
\* sends its upsert -- and the stored defaults are left as they are.
C27_Original ==
    \A c \in Callers :
        (task[c].pc = "data" /\ task[c].stage \in {"end", "remove", "upsert"}) =>
            \A answer \in NoPermitAnswers, now \in Nows :
                LET S2 == facade_answered(Cur, c, answer, now)
                IN  /\ S2.task[c].result.kind \in {"ok", "none"}
                    /\ S2.task[c].pc = "done" \/ S2.task[c].stage = "upsert"
                    /\ S2.default_type_id = default_type_id
                    /\ S2.default_code = default_code

\* ---------------------------------------------------------------- C28

PlainRequest == [NoOp EXCEPT !.name = "request", !.auth_required = FALSE]

\* request(..., auth_required=False) of caller c in the current state: it is
\* never in the lock queue or in a login, its one transport call carries no
\* Authorization entry, and whatever the answer the call ends there: a
\* response is returned as it is (401 and 403 too), and token and flag are
\* left as they are
C28_Plain ==
    \A c \in Callers :
        task[c].op = PlainRequest =>
            /\ task[c].pc \in {"data", "done"}
            /\ ~task[c].first401 /\ task[c].relogin = 0
            /\ task[c].pc = "data" =>
                /\ task[c].attempt = 1 /\ task[c].headers = PyNone
                /\ \A answer \in AuthDataAnswers :
                        LET S2 == request_returned(
                                    request_answered(Cur, c, answer), c, answer)
                        IN  /\ S2.task[c].pc = "done"
                            /\ S2.token = token
                            /\ S2.authenticated = authenticated
                            /\ S2.login_lock = login_lock
                            /\ (answer.kind = "response" /\ answer.status # 429) =>
                                    S2.task[c].result = Returned(PyInt(answer.status))

\* C28: a request() with auth_required=False never triggers a login, its
\* transport call carries no Authorization header, a 401 or 403 answer is
\* returned to the caller with no retry, and no step of the call -- its
\* start, its answer -- changes the token or the authenticated flag.
C28_NoAuthRequired ==
    /\ []C28_Plain
    /\ [][\A c \in Callers :
            (task'[c] # task[c] /\ PlainRequest \in {task[c].op, task'[c].op}) =>
                /\ token' = token
                /\ authenticated' = authenticated
                /\ permit_media_type_id' = permit_media_type_id
                /\ login_lock' = login_lock]_vars

\* a request with auth_required=False was answered 401 or 403 and returned
\* that response on a session that is still authenticated
C28_Witness ==
    \E c \in Callers :
        /\ task[c].op = PlainRequest /\ task[c].pc = "done"
        /\ task[c].result \in {Returned(PyInt(401)), Returned(PyInt(403))}
        /\ authenticated /\ token # PyNone

\* ---------------------------------------------------------------- C29

\* the auth-required transport call of caller c is in flight, and the token
\* it was sent with is no longer the session's: a later login stored another
SentWithOlderToken(c) ==
    /\ task[c].pc = "data"
    /\ task[c].op.auth_required
    /\ token # PyNone
    /\ task[c].headers # build_authorization_header(Cur).v

\* C29: the answer (401 or 403 included) to a request that was sent with a
\* token which a later completed login has replaced leaves the token and the
\* authenticated flag of that later login in place.
C29_Original ==
    [][\A c \in Callers :
            (SentWithOlderToken(c) /\ task'[c] # task[c]) =>
                /\ token' = token
                /\ authenticated' = authenticated]_vars

\* ---------------------------------------------------------------- C30

\* "Token <base64(token)>" for a stored token
TokenHeader(tok) == [scheme |-> "Token", value |-> b64encode(tok.s)]

\* the answers of POST /login that complete a login successfully
GoodLoginAnswers == {answer \in LoginAnswers : login_outcome(answer).ok}

\* The session and the calls in the current state: a token is held exactly
\* while the session is authenticated and is a non-empty string, no call has
\* ended with the missing-token AuthError, and for a request() whose login is
\* in flight every successful answer stores the token of that answer and
\* sends the request, first attempt or retry, with the header of that token
C30_Built ==
    /\ authenticated <=> token # PyNone
    /\ token # PyNone => token.t = "str" /\ token.s # <<>>
    /\ \A c \in Callers :
        /\ task[c].result # AuthError("Authentication token missing")
        /\ (task[c].pc = "login_post" /\ task[c].op = AuthRequest) =>
                \A answer \in GoodLoginAnswers :
                    LET S2 == login_answered(Cur, c, answer)
                        tok == PyStr(str(login_outcome(answer).v))
                    IN  /\ S2.token = tok /\ S2.authenticated
                        /\ S2.task[c].pc = "data"
                        /\ S2.task[c].attempt = task[c].attempt + 1
                        /\ S2.task[c].headers = TokenHeader(tok)

\* C30: every auth-required transport call of request(), first attempt or
\* retry, is sent with "Token <base64(token)>" of the token the session holds
\* at that step, a token stored by a completed successful login; the step in
\* which a first attempt is answered 401/403 leaves no token behind, so the
\* retry carries the token of a login completed after it; and request() never
\* ends with the missing-token AuthError, whatever invalidate() and the other
\* callers do in between.
C30_TokenOfTheMoment ==
    /\ []C30_Built
    /\ [][\A c \in Callers :
            /\ SendsAuthRequest(c) =>
                    /\ token' # PyNone
                    /\ task'[c].headers = TokenHeader(token')
                    /\ task'[c].attempt = 2 => task'[c].first401
            /\ (task[c].pc = "data" /\ task'[c].first401 /\ ~task[c].first401) =>
                    /\ token' = PyNone /\ ~authenticated'
                    /\ task'[c].pc \in {"wait_lock", "types_get", "login_post"}]_vars

\* the retry of caller c is in flight with the header of the token "7" its
\* re-login stored, while the other caller's request, sent with the earlier
\* token "t1", is still in flight
C30_Witness ==
    \E c \in Callers : \E d \in Callers \ {c} :
        /\ task[c].pc = "data" /\ task[c].attempt = 2 /\ task[c].relogin = 1
        /\ token = PyStr(<<"7">>)
        /\ task[c].headers = TokenHeader(token)
        /\ task[d].pc = "data" /\ task[d].attempt = 1
        /\ task[d].headers = TokenHeader(PyStr(ChT1))

\* ---------------------------------------------------------------- C31

EnsureOp == [NoOp EXCEPT !.name = "ensure_logged_in"]

\* the state after the login call caller c waits for is answered
LoginAnswered(c, answer) ==
    IF task[c].pc = "types_get" THEN types_answered(Cur, c, answer)
    ELSE login_answered(Cur, c, answer)

\* the answers to the login call caller c waits for
AnswersFor(c) == IF task[c].pc = "types_get" THEN TypesAnswers ELSE LoginAnswers

\* in state S2 the login of caller c has failed: no token, flag false, the
\* lock handed back with its queue as it was, and an _ensure_logged_in()
\* called next starts a login of its own, or queues behind the waiters when
\* there are any
FailedCleanly(S2, c) ==
    /\ S2.task[c].result.kind \in LoginFailures
    /\ S2.token = PyNone /\ ~S2.authenticated
    /\ S2.login_lock = [holder |-> NoCaller, waiters |-> login_lock.waiters]
    /\ \A now \in Nows :
            LET S3 == start_op([S2 EXCEPT !.task[c] = IdleTask], c, EnsureOp, now)
            IN  IF login_lock.waiters = <<>>
                THEN /\ S3.task[c].pc \in {"types_get", "login_post"}
                     /\ S3.login_lock.holder = c
                ELSE S3.task[c].pc = "wait_lock"

\* The lock and its queue in the current state: the holder is the caller
\* inside the login and the session is unauthenticated while it is; the queue
\* holds exactly the callers waiting, once each; a free lock with a queue is
\* granted to the head of the queue next; when all callers wait the lock is
\* free, about to be granted; and
\* every answer that fails the login in flight leaves the session as
\* FailedCleanly says
C31_Guard ==
    /\ \A c \in Callers :
        /\ InLogin(c) =>
            /\ login_lock.holder = c
            /\ token = PyNone /\ ~authenticated
            /\ \A answer \in AnswersFor(c) :
                    LET S2 == LoginAnswered(c, answer)
                    IN  S2.task[c].pc = "done" /\ S2.task[c].result.kind # "ok"
                            => FailedCleanly(S2, c)
        /\ task[c].pc = "wait_lock" <=>
                \E i \in 1..Len(login_lock.waiters) : login_lock.waiters[i] = c
    /\ \A i, j \in 1..Len(login_lock.waiters) :
            login_lock.waiters[i] = login_lock.waiters[j] => i = j
    /\ login_lock.holder # NoCaller => InLogin(login_lock.holder)
    /\ (login_lock.holder = NoCaller /\ login_lock.waiters # <<>>) =>
            ENABLED LockGranted(Head(login_lock.waiters))
    /\ (\A c \in Callers : task[c].pc = "wait_lock") => login_lock.holder = NoCaller

\* C31: a login that fails, at the types GET or at the credential POST, with
\* RateLimitError, AuthError or ParkingConnectionError, leaves the session
\* without token and with the flag false and releases the lock, so that a
\* later _ensure_logged_in starts a new login; the step that ends a failed
\* login does exactly that; and a caller waiting for the lock does not wait
\* forever.
C31_FailedLogin ==
    /\ []C31_Guard
    /\ [][\A c \in Callers :
            (InLogin(c) /\ task'[c].pc = "done" /\ task'[c].result.kind # "ok") =>
                /\ task'[c].result.kind \in LoginFailures
                /\ token' = PyNone /\ ~authenticated'
                /\ login_lock'.holder = NoCaller
                /\ login_lock'.waiters = login_lock.waiters]_vars
    /\ \A c \in Callers : (task[c].pc = "wait_lock") ~> InLogin(c) \/ task[c].pc \in {"data", "done"}

\* the login of caller d failed with the other caller in the queue, and that
\* caller, granted the lock, is now in a login of its own
C31_Witness ==
    \E c \in Callers : \E d \in Callers \ {c} :
        /\ LoginFailed(d)
        /\ InLogin(c) /\ login_lock.holder = c
        /\ token = PyNone /\ ~authenticated
        /\ task[c].op = EnsureOp

\* ---------------------------------------------------------------- C32

\* the answers request() returns to the operation for decoding
OkAnswers == {answer \in DataAnswers : answer.kind = "response" /\ answer.status = 200}

\* the permit-media the refresh reads from a decoded answer, when there is one
MediaOf(answer) ==
    LET Extracted(data) ==
            IF ~data.ok THEN Raise(ParseError("")) ELSE extract_permit_media(data.v)
    IN  Extracted(decode(answer))

\* the answers whose permit-media makes _update_defaults raise ParseError
RefreshFails(answer) ==
    /\ MediaOf(answer).ok
    /\ ~update_defaults(Cur, MediaOf(answer).v.permit_media).ok

\* the stored defaults are the TypeID and the Code of one permit-media
FromOneMedia ==
    \E answer \in OkAnswers :
        /\ MediaOf(answer).ok
        /\ update_defaults(Cur, MediaOf(answer).v.permit_media).ok
        /\ default_type_id =
                PyInt(int(MediaOf(answer).v.permit_media.d.TypeID).v)
        /\ default_code = MediaOf(answer).v.permit_media.d.Code

\* the stages of a facade operation whose response refreshes the defaults
RefreshStages == {"getbase", "defaults", "end", "remove", "upsert"}

\* C32 as stated: when the refresh of the stored defaults fails with
\* ParseError (TypeID missing or not an integer, Code missing or not a
\* string) both stored defaults are what they were before, and in every state
\* the stored type id and code are both None or both of the same permit-media.
C32_Original ==
    /\ (default_type_id = PyNone /\ default_code = PyNone) \/ FromOneMedia
    /\ \A c \in Callers :
        (task[c].pc = "data" /\ task[c].stage \in RefreshStages) =>
            \A answer \in OkAnswers, now \in Nows :
                RefreshFails(answer) =>
                    LET S2 == facade_answered(Cur, c, answer, now)
                    IN  /\ S2.task[c].result.kind = "ParseError"
                        /\ S2.default_type_id = default_type_id
                        /\ S2.default_code = default_code

====
